---- MODULE Spec2Model ----
(***************************************************************************)
(* A model of the recursive ray tracer: tuples, 4x4 matrices, rays,       *)
(* shapes, intersections, and the world's recursive shading.              *)
(*                                                                         *)
(* Numbers.  An f64 is modelled as a fixed-point integer: the value v is  *)
(* held as v * One.  EPSILON (util.rs) is the smallest step, so 1.0 is    *)
(* One steps of EPSILON.  Products and quotients are rescaled by One.     *)
(***************************************************************************)
EXTENDS Integers, Sequences, FiniteSets, Bags, TLC

VARIABLES
    world,      \* the World traced by color_at: [lights, objects]
    stack,      \* call stack of color_at / shade_hit / reflect_color / refracted_color
    ret,        \* value returned by the call that finished last
    ncalls,     \* color_at calls made since the outermost call
    budget,     \* depth budget of the outermost color_at call
    shape,      \* the Shape a scene program is building
    prev,       \* the Shape value the last builder call was made on
    xs,         \* an Intersections list handed to hit / prepare_computations
    res,        \* the last call made outside a trace, and what it returned
    camera,     \* the Camera that renders
    image,      \* the Canvas render fills
    at,         \* where render is: [pc, x, y]
    writes      \* the write_pixel calls render has made, in order

vars == <<world, stack, ret, ncalls, budget, shape, prev, xs, res, camera, image, at, writes>>

(***************************************************************************)
(* util.rs and f64 arithmetic                                              *)
(***************************************************************************)
EPSILON == 1

One == 1000

Abs(a) == IF a < 0 THEN -a ELSE a

\* a * b on f64
Mul(a, b) == (a * b) \div One

\* a / b on f64, b # 0.0
Div(a, b) == IF b > 0 THEN (a * One) \div b ELSE ((-a) * One) \div (-b)

RECURSIVE SqrtSearch(_, _, _)
SqrtSearch(n, lo, hi) ==
    IF lo >= hi THEN lo
    ELSE LET mid == (lo + hi + 1) \div 2
         IN  IF mid * mid <= n THEN SqrtSearch(n, mid, hi)
             ELSE SqrtSearch(n, lo, mid - 1)

\* f64::sqrt on a value >= 0.0 (the search stays below the square root of the
\* largest integer)
Sqrt(a) == SqrtSearch(a * One, 0, IF a + One > 46340 THEN 46340 ELSE a + One)

\* f64::powf(base, e) for a whole exponent e >= 0, e an unscaled integer
RECURSIVE Powf(_, _)
Powf(base, e) ==
    IF e = 0 THEN One
    ELSE IF e % 2 = 1 THEN Mul(base, Powf(base, e - 1))
    ELSE LET h == Powf(base, e \div 2) IN Mul(h, h)

flt_eq(a, b) == Abs(a - b) < EPSILON

(***************************************************************************)
(* tuple.rs                                                                *)
(***************************************************************************)
Tuple(x, y, z, w) == [x |-> x, y |-> y, z |-> z, w |-> w]

point(x, y, z) == Tuple(x, y, z, One)

vector(x, y, z) == Tuple(x, y, z, 0)

TAdd(a, b) == Tuple(a.x + b.x, a.y + b.y, a.z + b.z, a.w + b.w)

TSub(a, b) == Tuple(a.x - b.x, a.y - b.y, a.z - b.z, a.w - b.w)

TNeg(a) == Tuple(-a.x, -a.y, -a.z, -a.w)

TMul(a, k) == Tuple(Mul(a.x, k), Mul(a.y, k), Mul(a.z, k), Mul(a.w, k))

TDiv(a, k) == Tuple(Div(a.x, k), Div(a.y, k), Div(a.z, k), Div(a.w, k))

\* Tuple * Tuple: the four-component product used by Matrix * Tuple
TDot4(a, b) == Mul(a.x, b.x) + Mul(a.y, b.y) + Mul(a.z, b.z) + Mul(a.w, b.w)

dot(a, b) == Mul(a.x, b.x) + Mul(a.y, b.y) + Mul(a.z, b.z)

mag(a) == Sqrt(Mul(a.x, a.x) + Mul(a.y, a.y) + Mul(a.z, a.z))

norm(a) == TDiv(a, mag(a))

reflect(a, normal) == TSub(a, TMul(TMul(normal, 2 * One), dot(a, normal)))

cross(a, b) ==
    vector(Mul(a.y, b.z) - Mul(a.z, b.y), Mul(a.z, b.x) - Mul(a.x, b.z),
           Mul(a.x, b.y) - Mul(a.y, b.x))

\* the assert! / assert_eq! lines of the vector operations: TRUE when one fails
mag_panics(a) == ~(a.w = 0)

norm_panics(a) == ~(a.w = 0) \/ mag_panics(a)

dot_panics(a, b) == ~(a.w = 0)

reflect_panics(a, normal) == ~(a.w = 0) \/ ~(normal.w = 0) \/ dot_panics(a, normal)

cross_panics(a, b) == ~(a.w = 0) \/ ~(b.w = 0)

(***************************************************************************)
(* color.rs: a Color wraps the vector (r, g, b)                            *)
(***************************************************************************)
Color(r, g, b) == vector(r, g, b)

black == Color(0, 0, 0)

white == Color(One, One, One)

CAdd(a, b) == TAdd(a, b)

CScale(a, k) == TMul(a, k)

CMul(a, b) == Color(Mul(a.x, b.x), Mul(a.y, b.y), Mul(a.z, b.z))

(***************************************************************************)
(* matrix.rs: a Matrix<N> is a sequence of N rows of N entries; the        *)
(* source's index (r, c), counted from 0, is m[r + 1][c + 1] here.         *)
(***************************************************************************)
Mat2New(d) == << <<d[1], d[2]>>, <<d[3], d[4]>> >>

Mat3New(d) == << <<d[1], d[2], d[3]>>, <<d[4], d[5], d[6]>>, <<d[7], d[8], d[9]>> >>

det2(m) == Mul(m[1][1], m[2][2]) - Mul(m[2][1], m[1][2])

\* the cells (r, c) of an n x n grid in the order of `for r { for c { .. } }`
Cells(n) == [k \in 1..(n * n) |-> <<((k - 1) \div n) + 1, ((k - 1) % n) + 1>>]

Kept(m, n, row, col) ==
    LET keep == SelectSeq(Cells(n), LAMBDA rc : rc[2] # col /\ rc[1] # row)
    IN  [k \in 1..Len(keep) |-> m[keep[k][1]][keep[k][2]]]

submatrix3(m, row, col) == Mat2New(Kept(m, 3, row, col))

minor3(m, row, col) == det2(submatrix3(m, row, col))

cofactor3(m, row, col) ==
    IF ((row - 1) + (col - 1)) % 2 = 1 THEN -minor3(m, row, col) ELSE minor3(m, row, col)

det3(m) ==
    Mul(m[1][1], cofactor3(m, 1, 1)) + Mul(m[1][2], cofactor3(m, 1, 2))
        + Mul(m[1][3], cofactor3(m, 1, 3))

\* Mat3::inverse: m[(c, r)] = cofactor(r, c) / det
inverse3(m) ==
    LET d == det3(m)
    IN  [c \in 1..3 |-> [r \in 1..3 |-> Div(cofactor3(m, r, c), d)]]

submatrix4(m, row, col) == Mat3New(Kept(m, 4, row, col))

minor4(m, row, col) == det3(submatrix4(m, row, col))

\* a cofactor whose sign follows the parity of the row alone
cofactor4_by_row(m, row, col) ==
    IF (row - 1) % 2 = 1 THEN -minor4(m, row, col) ELSE minor4(m, row, col)

cofactor4(m, row, col) ==
    IF ((row - 1) + (col - 1)) % 2 = 1 THEN -minor4(m, row, col) ELSE minor4(m, row, col)

det4(m) ==
    Mul(m[1][1], cofactor4(m, 1, 1)) + Mul(m[1][2], cofactor4(m, 1, 2))
        + Mul(m[1][3], cofactor4(m, 1, 3)) + Mul(m[1][4], cofactor4(m, 1, 4))

\* the cofactors over the determinant, without the transposition
inverse_untransposed(m) ==
    LET d == det4(m)
    IN  [r \in 1..4 |-> [c \in 1..4 |-> Div(cofactor4(m, r, c), d)]]

\* Mat4::inverse: m[(c, r)] = cofactor(r, c) / det
inverse(m) ==
    LET d == det4(m)
    IN  [c \in 1..4 |-> [r \in 1..4 |-> Div(cofactor4(m, r, c), d)]]

identity == [r \in 1..4 |-> [c \in 1..4 |-> IF r = c THEN One ELSE 0]]

transpose(m) == [r \in 1..4 |-> [c \in 1..4 |-> m[c][r]]]

\* Matrix<4> * Matrix<4>
MatMul(a, b) ==
    [row \in 1..4 |-> [col \in 1..4 |->
        Mul(a[row][1], b[1][col]) + Mul(a[row][2], b[2][col])
            + Mul(a[row][3], b[3][col]) + Mul(a[row][4], b[4][col])]]

\* Matrix<4> * Tuple
MatTuple(m, t) ==
    LET rowt(r) == Tuple(m[r][1], m[r][2], m[r][3], m[r][4])
    IN  Tuple(TDot4(rowt(1), t), TDot4(rowt(2), t), TDot4(rowt(3), t), TDot4(rowt(4), t))

\* Matrix PartialEq: entrywise flt_eq
MatEq(a, b) == \A y \in 1..4 : \A x \in 1..4 : flt_eq(a[y][x], b[y][x])

(***************************************************************************)
(* transformations.rs                                                      *)
(***************************************************************************)
\* a translation written into the bottom row instead of the last column
translation_in_bottom_row(x, y, z) ==
    [identity EXCEPT ![4][1] = x, ![4][2] = y, ![4][3] = z]

translation(x, y, z) ==
    [identity EXCEPT ![1][4] = x, ![2][4] = y, ![3][4] = z]

scaling(x, y, z) ==
    [identity EXCEPT ![1][1] = x, ![2][2] = y, ![3][3] = z]

\* f64::cos and f64::sin, on the quarter and half turns used
Cos(a) ==
    CASE a = 1571 -> 0
      [] a = 3142 -> -One

Sin(a) ==
    CASE a = 1571 -> One
      [] a = 3142 -> 0

rot_x(angle) ==
    [identity EXCEPT ![2][2] = Cos(angle), ![2][3] = -Sin(angle),
                     ![3][2] = Sin(angle), ![3][3] = Cos(angle)]

rot_y(angle) ==
    [identity EXCEPT ![1][1] = Cos(angle), ![1][3] = Sin(angle),
                     ![3][1] = -Sin(angle), ![3][3] = Cos(angle)]

rot_z(angle) ==
    [identity EXCEPT ![1][1] = Cos(angle), ![1][2] = -Sin(angle),
                     ![2][1] = Sin(angle), ![2][2] = Cos(angle)]

shearing(xy, xz, yx, yz, zx, zy) ==
    [identity EXCEPT ![1][2] = xy, ![1][3] = xz, ![2][1] = yx, ![2][3] = yz,
                     ![3][1] = zx, ![3][2] = zy]

\* matrix.rs: the builders of Mat4
\* a builder that multiplies on the other side
Mat4_translation_after(self, x, y, z) == MatMul(self, translation(x, y, z))

Mat4_translation(self, x, y, z) == MatMul(translation(x, y, z), self)

Mat4_scaling(self, x, y, z) == MatMul(scaling(x, y, z), self)

Mat4_rot_x(self, angle) == MatMul(rot_x(angle), self)

Mat4_rot_y(self, angle) == MatMul(rot_y(angle), self)

Mat4_rot_z(self, angle) == MatMul(rot_z(angle), self)

Mat4_shearing(self, xy, xz, yx, yz, zx, zy) == MatMul(shearing(xy, xz, yx, yz, zx, zy), self)

(***************************************************************************)
(* ray.rs                                                                  *)
(***************************************************************************)
Ray(origin, direction) == [origin |-> origin, direction |-> direction]

position(r, time) == TAdd(r.origin, TMul(r.direction, time))

Ray_transform(r, t) == Ray(MatTuple(t, r.origin), MatTuple(t, r.direction))

(***************************************************************************)
(* lights.rs, pattern.rs, material.rs                                      *)
(***************************************************************************)
Light(pos, intensity) == [position |-> pos, intensity |-> intensity]

None == "None"

Pattern(p_type, a, b) == [p_type |-> p_type, a |-> a, b |-> b, transform |-> identity]

\* f64::floor, as a whole number
Floor(a) == a \div One

\* a pattern that rounds towards zero where the code takes the floor
Pattern_color_at_truncating(pat, p) ==
    LET trunc(a) == IF a < 0 THEN -((-a) \div One) ELSE a \div One
    IN  CASE pat.p_type = "Stripe" ->
                IF trunc(p.x) % 2 = 0 THEN pat.a ELSE pat.b
          [] pat.p_type = "Checker" ->
                IF (trunc(p.x) + trunc(p.y) + trunc(p.z)) % 2 = 0 THEN pat.a ELSE pat.b
          [] OTHER -> Color(p.x, p.y, p.z)

Pattern_color_at(pat, p) ==
    CASE pat.p_type = "Stripe" ->
            IF Floor(p.x) % 2 = 0 THEN pat.a ELSE pat.b
      [] pat.p_type = "Gradient" ->
            CAdd(pat.a, CScale(TSub(pat.b, pat.a), p.x - Floor(p.x) * One))
      [] pat.p_type = "Ring" ->
            IF Floor(Sqrt(Mul(p.x, p.x) + Mul(p.z, p.z))) % 2 = 0 THEN pat.a ELSE pat.b
      [] pat.p_type = "Checker" ->
            IF (Floor(p.x) + Floor(p.y) + Floor(p.z)) % 2 = 0 THEN pat.a ELSE pat.b
      [] OTHER -> Color(p.x, p.y, p.z)

pattern_at_shape(pat, s, world_point) ==
    LET object_point == MatTuple(s.transform_inverse, world_point)
        pattern_point == MatTuple(inverse(pat.transform), object_point)
    IN  Pattern_color_at(pat, pattern_point)

\* the fields of Material that world.rs, intersection.rs and object.rs read and
\* material.rs does not declare, with the defaults their callers and the tests
\* of world.rs rely on: not reflective, opaque, the refractive index of vacuum
Material_optics == [reflective |-> 0, transparency |-> 0, refractive_index |-> One]

\* Material::default()
Material_default ==
    [color |-> Color(One, One, One), ambient |-> One \div 10, diffuse |-> (9 * One) \div 10,
     specular |-> (9 * One) \div 10, shininess |-> 200, pattern |-> << >>,
     reflective |-> Material_optics.reflective,
     transparency |-> Material_optics.transparency,
     refractive_index |-> Material_optics.refractive_index]

\* a lighting in which a shadow only dims the diffuse term
lighting_darkened(m, light, s, pt, eyev, normalv, in_shadow) ==
    LET effective_color ==
            CMul(IF m.pattern = << >> THEN m.color ELSE pattern_at_shape(m.pattern[1], s, pt),
                 light.intensity)
        light_dot_normal == dot(norm(TSub(light.position, pt)), normalv)
        diffuse ==
            IF light_dot_normal < 0 THEN black
            ELSE CScale(CScale(effective_color, m.diffuse), light_dot_normal)
    IN  CAdd(CScale(effective_color, m.ambient),
             IF in_shadow THEN CScale(diffuse, One \div 2) ELSE diffuse)

lighting(m, light, s, pt, eyev, normalv, in_shadow) ==
    LET effective_color ==
            CMul(IF m.pattern = << >> THEN m.color ELSE pattern_at_shape(m.pattern[1], s, pt),
                 light.intensity)
        ambient == CScale(effective_color, m.ambient)
    IN  IF in_shadow THEN ambient
        ELSE LET lightv == norm(TSub(light.position, pt))
                 light_dot_normal == dot(lightv, normalv)
                 diffuse ==
                     IF light_dot_normal < 0 THEN black
                     ELSE CScale(CScale(effective_color, m.diffuse), light_dot_normal)
                 reflect_v == reflect(TNeg(lightv), normalv)
                 reflect_dot_eye == dot(reflect_v, eyev)
                 specular ==
                     IF light_dot_normal < 0 \/ reflect_dot_eye <= 0 THEN black
                     ELSE CScale(CScale(light.intensity, m.specular),
                                 Powf(reflect_dot_eye, m.shininess))
             IN  CAdd(CAdd(ambient, diffuse), specular)

(***************************************************************************)
(* sphere.rs, plane.rs: the geometry kinds in their local space            *)
(***************************************************************************)
\* a sphere that reports a tangent ray once
Sphere_local_intersect_tangent_once(r) ==
    LET sphere_to_ray == TSub(r.origin, point(0, 0, 0))
        a == dot(r.direction, r.direction)
        b == Mul(2 * One, dot(r.direction, sphere_to_ray))
        c == dot(sphere_to_ray, sphere_to_ray) - One
        discriminant == Mul(b, b) - Mul(Mul(4 * One, a), c)
    IN  IF discriminant < 0 THEN << >>
        ELSE IF discriminant = 0 THEN << Div(-b, Mul(2 * One, a)) >>
        ELSE << Div(-b - Sqrt(discriminant), Mul(2 * One, a)),
                Div(-b + Sqrt(discriminant), Mul(2 * One, a)) >>

Sphere_local_intersect(r) ==
    LET sphere_to_ray == TSub(r.origin, point(0, 0, 0))
        a == dot(r.direction, r.direction)
        b == Mul(2 * One, dot(r.direction, sphere_to_ray))
        c == dot(sphere_to_ray, sphere_to_ray) - One
        discriminant == Mul(b, b) - Mul(Mul(4 * One, a), c)
    IN  IF discriminant < 0 THEN << >>
        ELSE << Div(-b - Sqrt(discriminant), Mul(2 * One, a)),
                Div(-b + Sqrt(discriminant), Mul(2 * One, a)) >>

Sphere_local_normal_at(object_point) == TSub(object_point, point(0, 0, 0))

\* a plane that keeps only the hits ahead of the ray
Plane_local_intersect_ahead(r) ==
    IF Abs(r.direction.y) < EPSILON \/ Div(-r.origin.y, r.direction.y) < 0 THEN << >>
    ELSE << Div(-r.origin.y, r.direction.y) >>

Plane_local_intersect(r) ==
    IF Abs(r.direction.y) < EPSILON THEN << >>
    ELSE << Div(-r.origin.y, r.direction.y) >>

Plane_local_normal_at(object_point) == vector(0, One, 0)

local_intersect(kind, r) ==
    IF kind = "Sphere" THEN Sphere_local_intersect(r) ELSE Plane_local_intersect(r)

local_normal_at(kind, object_point) ==
    IF kind = "Sphere" THEN Sphere_local_normal_at(object_point)
    ELSE Plane_local_normal_at(object_point)

(***************************************************************************)
(* object.rs: Shape                                                        *)
(***************************************************************************)
Shape(t, ti, m, kind) ==
    [transform |-> t, transform_inverse |-> ti, material |-> m, object |-> kind]

Shape_sphere == Shape(identity, identity, Material_default, "Sphere")

Shape_glass_sphere ==
    Shape(identity, identity,
          [Material_default EXCEPT !.refractive_index = (15 * One) \div 10,
                                   !.transparency = One],
          "Sphere")

Shape_plane == Shape(identity, identity, Material_default, "Plane")

with_transform(s, t) == [s EXCEPT !.transform = t, !.transform_inverse = inverse(t)]

\* a builder that starts again from the default transform
with_material_untransformed(s, m) ==
    [s EXCEPT !.material = m, !.transform = identity, !.transform_inverse = identity]

with_material(s, m) == [s EXCEPT !.material = m]

with_pattern(s, pat) == [s EXCEPT !.material.pattern = <<pat>>]

set_transform(s, t) == [s EXCEPT !.transform = t, !.transform_inverse = inverse(t)]

set_material(s, m) == [s EXCEPT !.material = m]

set_pattern(s, pat) == [s EXCEPT !.material.pattern = <<pat>>]

\* `shape.transform = t` from outside the module: the field is pub
write_transform(s, t) == [s EXCEPT !.transform = t]

\* impl PartialEq for Shape
ShapeEq(a, b) ==
    /\ MatEq(a.transform, b.transform)
    /\ MatEq(a.transform_inverse, b.transform_inverse)
    /\ a.material = b.material
    /\ a.object = b.object

Intersection(t, s) == [time |-> t, object |-> s]

\* #[derive(PartialEq)] on Intersection
IntersectionEq(a, b) == a.time = b.time /\ ShapeEq(a.object, b.object)

Shape_intersects(s, r) ==
    LET lr == Ray_transform(r, s.transform_inverse)
        ts == local_intersect(s.object, lr)
    IN  [k \in 1..Len(ts) |-> Intersection(ts[k], s)]

normal_at(s, pt) ==
    LET local_point == MatTuple(s.transform_inverse, pt)
        local_normal == local_normal_at(s.object, local_point)
        world_normal == MatTuple(transpose(s.transform_inverse), local_normal)
    IN  norm([world_normal EXCEPT !.w = 0])

(***************************************************************************)
(* intersection.rs: Intersections and Computations.  An Option is a        *)
(* sequence of length 0 (None) or 1 (Some).                                *)
(***************************************************************************)
\* a filter that lets an intersection at time 0 through
hit_candidate_nonnegative(t) == t.time >= 0

\* the filter of Intersections::hit
hit_candidate(t) == t.time > 0

\* a selection that trusts the list to be sorted: its first candidate
min_by_time_first(s, best) == IF s = << >> THEN best ELSE <<Head(s)>>

\* Iterator::min_by with total_cmp on time: the first of the least elements
RECURSIVE min_by_time(_, _)
min_by_time(s, best) ==
    IF s = << >> THEN best
    ELSE IF best = << >> \/ Head(s).time < best[1].time
         THEN min_by_time(Tail(s), <<Head(s)>>)
         ELSE min_by_time(Tail(s), best)

hit(l) == min_by_time(SelectSeq(l, hit_candidate), << >>)

\* a search that takes two shapes for the same only when they are the same
\* object, whatever their values
RECURSIVE position_of_same_object(_, _, _)
position_of_same_object(containers, s, k) ==
    IF k > Len(containers) THEN 0
    ELSE IF s = containers[k] THEN k
    ELSE position_of_same_object(containers, s, k + 1)

\* containers.iter().position(|&s| x.object == s): 0 stands for None
RECURSIVE position_of(_, _, _)
position_of(containers, s, k) ==
    IF k > Len(containers) THEN 0
    ELSE IF ShapeEq(s, containers[k]) THEN k
    ELSE position_of(containers, s, k + 1)

\* Vec::remove(index)
remove_at(v, index) == SubSeq(v, 1, index - 1) \o SubSeq(v, index + 1, Len(v))

\* a toggle that treats the container list as a stack: only its top can leave
toggle_top_only(containers, s) ==
    IF containers # << >> /\ ShapeEq(s, containers[Len(containers)])
    THEN SubSeq(containers, 1, Len(containers) - 1)
    ELSE Append(containers, s)

\* the container toggle of prepare_computations
toggle(containers, s) ==
    LET index == position_of(containers, s, 1)
    IN  IF index # 0 THEN remove_at(containers, index) ELSE Append(containers, s)

\* the refractive index read off the container list
last_index(containers) ==
    IF containers = << >> THEN One
    ELSE containers[Len(containers)].material.refractive_index

\* a loop that reads n1 only after the toggle
RECURSIVE containers_loop_late_n1(_, _, _, _, _, _)
containers_loop_late_n1(self, l, k, containers, n1, n2) ==
    IF k > Len(l) THEN <<n1, n2>>
    ELSE LET x == l[k]
             after == toggle(containers, x.object)
         IN  IF IntersectionEq(self, x) THEN <<last_index(after), last_index(after)>>
             ELSE containers_loop_late_n1(self, l, k + 1, after, n1, n2)

\* a loop that leaves n1 at the value it was initialised with
RECURSIVE containers_loop_n1_untouched(_, _, _, _, _, _)
containers_loop_n1_untouched(self, l, k, containers, n1, n2) ==
    IF k > Len(l) THEN <<n1, n2>>
    ELSE LET x == l[k]
             after == toggle(containers, x.object)
         IN  IF IntersectionEq(self, x) THEN <<n1, last_index(after)>>
             ELSE containers_loop_n1_untouched(self, l, k + 1, after, n1, n2)

\* the loop of prepare_computations from element k on: <<n1, n2>>
RECURSIVE containers_loop(_, _, _, _, _, _)
containers_loop(self, l, k, containers, n1, n2) ==
    IF k > Len(l) THEN <<n1, n2>>
    ELSE LET x == l[k]
             n1b == IF IntersectionEq(self, x) THEN last_index(containers) ELSE n1
             after == toggle(containers, x.object)
         IN  IF IntersectionEq(self, x) THEN <<n1b, last_index(after)>>
             ELSE containers_loop(self, l, k + 1, after, n1b, n2)

\* a prepare_computations that offsets over_point and under_point along the
\* normal the shape gave, before the flip
prepare_computations_unflipped_offsets(self, r, l) ==
    LET n == containers_loop(self, l, 1, << >>, One, One)
        p == position(r, self.time)
        normal0 == normal_at(self.object, p)
        eye_v == TNeg(r.direction)
        inside == dot(normal0, eye_v) < 0
        normal_v == IF inside THEN TNeg(normal0) ELSE normal0
    IN  [i |-> self, point |-> p, inside |-> inside, eye_v |-> eye_v,
         normal_v |-> normal_v, dot_eyev_normal_v |-> dot(eye_v, normal_v),
         over_point |-> TAdd(p, TMul(normal0, EPSILON)),
         under_point |-> TSub(p, TMul(normal0, EPSILON)),
         reflect_v |-> reflect(r.direction, normal_v), n |-> n]

\* the container list of the same loop when it ends
RECURSIVE containers_loop_containers(_, _, _, _)
containers_loop_containers(self, l, k, containers) ==
    IF k > Len(l) THEN containers
    ELSE LET x == l[k]
             after == toggle(containers, x.object)
         IN  IF IntersectionEq(self, x) THEN after
             ELSE containers_loop_containers(self, l, k + 1, after)

prepare_computations(self, r, l) ==
    LET n == containers_loop(self, l, 1, << >>, One, One)
        p == position(r, self.time)
        normal0 == normal_at(self.object, p)
        eye_v == TNeg(r.direction)
        inside == dot(normal0, eye_v) < 0
        normal_v == IF inside THEN TNeg(normal0) ELSE normal0
    IN  [i |-> self, point |-> p, inside |-> inside, eye_v |-> eye_v,
         normal_v |-> normal_v, dot_eyev_normal_v |-> dot(eye_v, normal_v),
         over_point |-> TAdd(p, TMul(normal_v, EPSILON)),
         under_point |-> TSub(p, TMul(normal_v, EPSILON)),
         reflect_v |-> reflect(r.direction, normal_v), n |-> n]

(***************************************************************************)
(* world.rs: the functions of World that do not recurse                    *)
(***************************************************************************)
World(lights, objects) == [lights |-> lights, objects |-> objects]

\* .map(|o| o.intersects(r).into_inner()).flatten().collect()
RECURSIVE collect(_, _)
collect(objects, r) ==
    IF objects = << >> THEN << >>
    ELSE Shape_intersects(Head(objects), r) \o collect(Tail(objects), r)

\* slice::sort_by (stable) with total_cmp on time
RECURSIVE insert_by_time(_, _)
insert_by_time(sorted, x) ==
    IF sorted = << >> THEN <<x>>
    ELSE IF x.time < Head(sorted).time THEN <<x>> \o sorted
    ELSE <<Head(sorted)>> \o insert_by_time(Tail(sorted), x)

RECURSIVE sort_by_time(_, _)
sort_by_time(l, sorted) ==
    IF l = << >> THEN sorted
    ELSE sort_by_time(Tail(l), insert_by_time(sorted, Head(l)))

\* an intersects that leaves the hits in the order of the shapes
World_intersects_unsorted(w, r) == collect(w.objects, r)

World_intersects(w, r) == sort_by_time(collect(w.objects, r), << >>)

\* a shadow test that does not compare the hit with the distance to the light
is_shadowed_any_hit(w, p) ==
    hit(World_intersects(w, Ray(p, norm(TSub(w.lights[1].position, p))))) # << >>

is_shadowed(w, p) ==
    LET v == TSub(w.lights[1].position, p)
        distance == mag(v)
        direction == norm(v)
        r == Ray(p, direction)
        h == hit(World_intersects(w, r))
    IN  h # << >> /\ h[1].time < distance

(***************************************************************************)
(* world.rs: shade_hit, reflect_color, color_at and refracted_color call   *)
(* one another; each call is a frame of `stack`, each step below is the    *)
(* code of one function between two calls.  A frame that has finished      *)
(* holds its value in `out` at pc "ret" until Return pops it.              *)
(***************************************************************************)
Top == stack[Len(stack)]

Below == SubSeq(stack, 1, Len(stack) - 1)

ColorAtFrame(r, depth) ==
    [fn |-> "color_at", pc |-> "start", r |-> r, depth |-> depth,
     xs |-> << >>, hit |-> << >>, out |-> black]

ShadeHitFrame(comps, depth) ==
    [fn |-> "shade_hit", pc |-> "start", comps |-> comps, depth |-> depth,
     surface |-> black, reflected |-> black, refracted |-> black, out |-> black]

ReflectColorFrame(comps, depth) ==
    [fn |-> "reflect_color", pc |-> "start", comps |-> comps, depth |-> depth,
     cast |-> << >>, color |-> black, out |-> black]

RefractedColorFrame(comps, depth) ==
    [fn |-> "refracted_color", pc |-> "start", comps |-> comps, depth |-> depth,
     cast |-> << >>, color |-> black, out |-> black]

\* ---- reflect_color ----
\* a reflect_color that goes on with no budget left
reflect_color_stops_unreflective(comps, depth) ==
    comps.i.object.material.reflective = 0

reflect_color_stops(comps, depth) ==
    depth = 0 \/ comps.i.object.material.reflective = 0

reflect_ray(comps) == Ray(comps.over_point, comps.reflect_v)

\* a recursive call that keeps its caller's budget
same_depth(depth) == depth

reflect_color_depth(depth) == depth - 1

\* a result that forgets the reflective coefficient
unscaled_result(color, comps) == color

reflect_color_result(color, comps) == CScale(color, comps.i.object.material.reflective)

\* ---- refracted_color ----
n_ratio(comps) == Div(comps.n[1], comps.n[2])

cos_i(comps) == dot(comps.eye_v, comps.normal_v)

sin2_t(comps) ==
    Mul(Mul(n_ratio(comps), n_ratio(comps)), One - Mul(cos_i(comps), cos_i(comps)))

refracted_color_stops(comps, depth) ==
    comps.i.object.material.transparency = 0 \/ depth = 0

\* a refraction that never checks for total internal reflection
never_total_internal_reflection(comps) == FALSE

total_internal_reflection(comps) == sin2_t(comps) > One

refracted_ray(comps) ==
    LET cos_t == Sqrt(One - sin2_t(comps))
        direction ==
            TSub(TMul(comps.normal_v, Mul(n_ratio(comps), cos_i(comps)) - cos_t),
                 TMul(comps.eye_v, n_ratio(comps)))
    IN  Ray(comps.under_point, direction)

refracted_color_depth(depth) == depth - 1

refracted_color_result(color, comps) ==
    CScale(color, comps.i.object.material.transparency)

\* ---- shade_hit ----
shade_hit_surface(w, comps) ==
    lighting(comps.i.object.material, w.lights[1], comps.i.object, comps.over_point,
             comps.eye_v, comps.normal_v, is_shadowed(w, comps.over_point))

\* a shade_hit that spends one unit of budget itself
less_depth(depth) == depth - 1

shade_hit_reflect_depth(depth) == depth

shade_hit_refract_depth(depth) == depth

shade_hit_result(surface, reflected, refracted) == CAdd(CAdd(surface, reflected), refracted)

(***************************************************************************)
(* The scenes traced: shapes as the tests and scene programs build them.   *)
(***************************************************************************)
MaxObjects == 2

MaxDepth == 2

\* util.rs: the depth Camera::render hands to color_at
MAX_REFLECTIONS == 10

\* no run of the code makes this many color_at calls for one outermost call
MaxCalls == 8 * MAX_REFLECTIONS

\* tests::mutually_reflective_surfaces: two facing mirrors
lower ==
    with_transform(with_material(Shape_plane, [Material_default EXCEPT !.reflective = One]),
                   translation(0, -One, 0))

upper ==
    with_transform(with_material(Shape_plane, [Material_default EXCEPT !.reflective = One]),
                   translation(0, One, 0))

\* a glass sphere that also reflects
glass == [Shape_glass_sphere EXCEPT !.material.reflective = One \div 2]

\* a transparent sphere of index 1.0 touching the y axis from the side
bubble ==
    with_transform(with_material(Shape_sphere, [Material_default EXCEPT !.transparency = One]),
                   translation(One, 0, 0))

\* bin/reflection.rs: the floor, without ambient or specular light, a mirror
floor ==
    with_transform(
        with_material(Shape_plane,
                      [Material_default EXCEPT !.shininess = 20, !.specular = 0,
                                               !.ambient = 0, !.reflective = One]),
        translation(0, -2 * One, 0))

\* the unit sphere of the default material: neither reflective nor transparent
matte == Shape_sphere

Catalog == {lower, upper, glass, bubble, floor, matte}

TheLight == Light(point(0, One \div 2, 0), white)

Worlds ==
    {World(<<TheLight>>, objs) : objs \in UNION {[1..n -> Catalog] : n \in 1..MaxObjects}}

Rays ==
    {Ray(point(0, y, 0), vector(0, d, 0)) : y \in {-3 * One, 0}, d \in {One, -One}}
        \cup {Ray(point(-3 * One, 0, 0), vector(One, 0, 0))}

Depths == 0..MaxDepth

(***************************************************************************)
(* Specification Spec: color_at on a world                                 *)
(***************************************************************************)
IdleTrace ==
    /\ stack = << >>
    /\ ret = black
    /\ ncalls = 0
    /\ budget = 0

IdleShape == shape = Shape_sphere /\ prev = Shape_sphere

IdleXs == xs = << >> /\ res = [op |-> None]

\* no render in progress: no camera made yet
IdleRender ==
    /\ camera = << >>
    /\ image = << >>
    /\ at = [pc |-> "idle", x |-> 0, y |-> 0]
    /\ writes = << >>

Init ==
    /\ world \in Worlds
    /\ IdleTrace
    /\ IdleRender
    /\ IdleShape
    /\ IdleXs

Push(f) == stack' = Append(stack, f)

\* the top frame becomes f and calls g
Call(f, g) == stack' = Append(Append(Below, f), g)

Become(f) == stack' = Append(Below, f)

At(fn, pc) == stack # << >> /\ Top.fn = fn /\ Top.pc = pc

\* a callee that empties the list of shapes it was lent
NoBuild_clearing ==
    /\ world' = [world EXCEPT !.objects = << >>]
    /\ UNCHANGED <<shape, prev, xs, res, camera, image, at, writes>>

NoBuild == UNCHANGED <<world, shape, prev, xs, res, camera, image, at, writes>>

\* the outermost call, as Camera::render and the tests make it
Trace(r, depth) ==
    /\ stack = << >>
    /\ Push(ColorAtFrame(r, depth))
    /\ ncalls' = 1
    /\ budget' = depth
    /\ UNCHANGED ret
    /\ NoBuild

\* color_at up to the call of shade_hit
ColorAtStart ==
    /\ At("color_at", "start")
    /\ LET l == World_intersects(world, Top.r)
           h == hit(l)
       IN  IF h = << >>
           THEN Become([Top EXCEPT !.pc = "ret", !.xs = l, !.hit = h, !.out = black])
           ELSE Call([Top EXCEPT !.pc = "shading", !.xs = l, !.hit = h],
                     ShadeHitFrame(prepare_computations(h[1], Top.r, l), Top.depth))
    /\ UNCHANGED <<ret, ncalls, budget>>
    /\ NoBuild

\* color_at returns what shade_hit returned
ColorAtShaded ==
    /\ At("color_at", "shading")
    /\ Become([Top EXCEPT !.pc = "ret", !.out = ret])
    /\ UNCHANGED <<ret, ncalls, budget>>
    /\ NoBuild

\* shade_hit up to the call of reflect_color
ShadeHitStart ==
    /\ At("shade_hit", "start")
    /\ Call([Top EXCEPT !.pc = "reflecting", !.surface = shade_hit_surface(world, Top.comps)],
            ReflectColorFrame(Top.comps, shade_hit_reflect_depth(Top.depth)))
    /\ UNCHANGED <<ret, ncalls, budget>>
    /\ NoBuild

\* shade_hit between reflect_color and refracted_color
ShadeHitReflected ==
    /\ At("shade_hit", "reflecting")
    /\ Call([Top EXCEPT !.pc = "refracting", !.reflected = ret],
            RefractedColorFrame(Top.comps, shade_hit_refract_depth(Top.depth)))
    /\ UNCHANGED <<ret, ncalls, budget>>
    /\ NoBuild

\* shade_hit after refracted_color
ShadeHitRefracted ==
    /\ At("shade_hit", "refracting")
    /\ Become([Top EXCEPT !.pc = "ret", !.refracted = ret,
                          !.out = shade_hit_result(Top.surface, Top.reflected, ret)])
    /\ UNCHANGED <<ret, ncalls, budget>>
    /\ NoBuild

\* reflect_color up to its return or its call of color_at
ReflectColorStart ==
    /\ At("reflect_color", "start")
    /\ IF reflect_color_stops(Top.comps, Top.depth)
       THEN /\ Become([Top EXCEPT !.pc = "ret", !.out = black])
            /\ UNCHANGED ncalls
       ELSE LET r == reflect_ray(Top.comps)
                d == reflect_color_depth(Top.depth)
            IN  /\ ncalls < MaxCalls
                /\ Call([Top EXCEPT !.pc = "cast", !.cast = <<[r |-> r, depth |-> d]>>],
                        ColorAtFrame(r, d))
                /\ ncalls' = ncalls + 1
    /\ UNCHANGED <<ret, budget>>
    /\ NoBuild

\* reflect_color after color_at
ReflectColorCast ==
    /\ At("reflect_color", "cast")
    /\ Become([Top EXCEPT !.pc = "ret", !.color = ret,
                          !.out = reflect_color_result(ret, Top.comps)])
    /\ UNCHANGED <<ret, ncalls, budget>>
    /\ NoBuild

\* refracted_color up to its return or its call of color_at
RefractedColorStart ==
    /\ At("refracted_color", "start")
    /\ IF refracted_color_stops(Top.comps, Top.depth)
       THEN /\ Become([Top EXCEPT !.pc = "ret", !.out = black])
            /\ UNCHANGED ncalls
       ELSE IF total_internal_reflection(Top.comps)
       THEN /\ Become([Top EXCEPT !.pc = "ret", !.out = black])
            /\ UNCHANGED ncalls
       ELSE LET r == refracted_ray(Top.comps)
                d == refracted_color_depth(Top.depth)
            IN  /\ ncalls < MaxCalls
                /\ Call([Top EXCEPT !.pc = "cast", !.cast = <<[r |-> r, depth |-> d]>>],
                        ColorAtFrame(r, d))
                /\ ncalls' = ncalls + 1
    /\ UNCHANGED <<ret, budget>>
    /\ NoBuild

\* refracted_color after color_at
RefractedColorCast ==
    /\ At("refracted_color", "cast")
    /\ Become([Top EXCEPT !.pc = "ret", !.color = ret,
                          !.out = refracted_color_result(ret, Top.comps)])
    /\ UNCHANGED <<ret, ncalls, budget>>
    /\ NoBuild

\* a finished call hands its value to its caller
Return ==
    /\ stack # << >>
    /\ Top.pc = "ret"
    /\ stack' = Below
    /\ ret' = Top.out
    /\ UNCHANGED <<ncalls, budget>>
    /\ NoBuild

Step ==
    \/ ColorAtStart
    \/ ColorAtShaded
    \/ ShadeHitStart
    \/ ShadeHitReflected
    \/ ShadeHitRefracted
    \/ ReflectColorStart
    \/ ReflectColorCast
    \/ RefractedColorStart
    \/ RefractedColorCast
    \/ Return

Next ==
    \/ \E r \in Rays, depth \in Depths : Trace(r, depth)
    \/ Step

Spec == Init /\ [][Next]_vars

(***************************************************************************)
(* Specification SpecShape: a scene program building one Shape through     *)
(* the factories, the builders, the setters and its pub fields.            *)
(***************************************************************************)
Transforms ==
    {identity, translation(0, One, 0), scaling(2 * One, 2 * One, 2 * One)}

Materials ==
    {Material_default, [Material_default EXCEPT !.reflective = One],
     [Material_default EXCEPT !.refractive_index = (15 * One) \div 10, !.transparency = One]}

Patterns == {Pattern("Stripe", white, black)}

IdleWorld == world = World(<< >>, << >>)

InitShape ==
    /\ shape \in {Shape_sphere, Shape_glass_sphere, Shape_plane}
    /\ prev = shape
    /\ IdleWorld
    /\ IdleTrace
    /\ IdleRender
    /\ IdleXs

NoTrace == UNCHANGED <<world, stack, ret, ncalls, budget, xs, camera, image, at, writes>>

\* the call just made: what the receiver's binding holds after it (a builder
\* takes `mut self` by value and Shape is Copy, a setter takes `&mut self`)
\* and what the call returned
Called(op, self, out) == res' = [op |-> op, self |-> self, out |-> out]

\* let s = s.with_transform(t)
WithTransform(t) ==
    /\ shape' = with_transform(shape, t)
    /\ prev' = shape
    /\ Called("with_transform", shape, <<with_transform(shape, t)>>)
    /\ NoTrace

\* let s = s.with_material(m)
WithMaterial(m) ==
    /\ shape' = with_material(shape, m)
    /\ prev' = shape
    /\ Called("with_material", shape, <<with_material(shape, m)>>)
    /\ NoTrace

\* let s = s.with_pattern(p)
WithPattern(pat) ==
    /\ shape' = with_pattern(shape, pat)
    /\ prev' = shape
    /\ Called("with_pattern", shape, <<with_pattern(shape, pat)>>)
    /\ NoTrace

\* s.set_transform(t)
SetTransform(t) ==
    /\ shape' = set_transform(shape, t)
    /\ prev' = shape
    /\ Called("set_transform", set_transform(shape, t), << >>)
    /\ NoTrace

\* s.set_material(m)
SetMaterial(m) ==
    /\ shape' = set_material(shape, m)
    /\ prev' = shape
    /\ Called("set_material", set_material(shape, m), << >>)
    /\ NoTrace

\* s.set_pattern(p)
SetPattern(pat) ==
    /\ shape' = set_pattern(shape, pat)
    /\ prev' = shape
    /\ Called("set_pattern", set_pattern(shape, pat), << >>)
    /\ NoTrace

\* s.transform = t, as bin/reflection.rs does
WriteTransform(t) ==
    /\ shape' = write_transform(shape, t)
    /\ prev' = shape
    /\ Called("transform =", write_transform(shape, t), << >>)
    /\ NoTrace

\* s.material.reflective = v, as bin/reflection.rs does
WriteReflective(v) ==
    /\ shape' = [shape EXCEPT !.material.reflective = v]
    /\ prev' = shape
    /\ Called("material.reflective =", [shape EXCEPT !.material.reflective = v], << >>)
    /\ NoTrace

NextShape ==
    \/ \E t \in Transforms : WithTransform(t)
    \/ \E m \in Materials : WithMaterial(m)
    \/ \E pat \in Patterns : WithPattern(pat)
    \/ \E t \in Transforms : SetTransform(t)
    \/ \E m \in Materials : SetMaterial(m)
    \/ \E pat \in Patterns : SetPattern(pat)
    \/ \E t \in Transforms : WriteTransform(t)
    \/ \E v \in {0, One} : WriteReflective(v)

SpecShape == InitShape /\ [][NextShape]_vars

(***************************************************************************)
(* Specification SpecXs: hit and prepare_computations on a list of         *)
(* intersections, in any order, as the tests hand them over.               *)
(***************************************************************************)
MaxXs == 3

\* tests::finding_n1_and_n2_at_various_intersections
A ==
    [with_transform(Shape_glass_sphere, scaling(2 * One, 2 * One, 2 * One))
        EXCEPT !.material.refractive_index = (15 * One) \div 10]

B ==
    [with_transform(Shape_glass_sphere, translation(0, 0, -(One \div 4)))
        EXCEPT !.material.refractive_index = 2 * One]

C ==
    [with_transform(Shape_glass_sphere, translation(0, 0, One \div 4))
        EXCEPT !.material.refractive_index = (25 * One) \div 10]

TestRay == Ray(point(0, 0, -4 * One), vector(0, 0, One))

TestXs ==
    << Intersection(2 * One, A), Intersection((275 * One) \div 100, B),
       Intersection((325 * One) \div 100, C), Intersection((475 * One) \div 100, B),
       Intersection((525 * One) \div 100, C), Intersection(6 * One, A) >>

Times == {-One, 0, One, 2 * One}

XsElems == {Intersection(t, s) : t \in Times, s \in {A, B}}

\* two glass spheres in the same place: equal in every field PartialEq reads,
\* and two objects (addr tells them apart; no code reads it)
Twin(addr) ==
    [transform |-> identity, transform_inverse |-> identity,
     material |-> Shape_glass_sphere.material, object |-> "Sphere", addr |-> addr]

TwinXs ==
    << Intersection(3 * One, Twin(1)), Intersection(3 * One, Twin(2)),
       Intersection(5 * One, Twin(1)), Intersection(5 * One, Twin(2)) >>

XsInputs == UNION {[1..n -> XsElems] : n \in 0..MaxXs} \cup {TestXs, TwinXs}

InitXs ==
    /\ xs \in XsInputs
    /\ res = [op |-> None]
    /\ IdleWorld
    /\ IdleTrace
    /\ IdleRender
    /\ IdleShape

NoXsFrame ==
    UNCHANGED <<world, stack, ret, ncalls, budget, shape, prev, xs, camera, image, at, writes>>

\* xs.hit()
CallHit ==
    /\ res' = [op |-> "hit", out |-> hit(xs)]
    /\ NoXsFrame

\* xs[k].prepare_computations(r, &xs)
CallPrepare(k) ==
    /\ res' = [op |-> "prepare", k |-> k, out |-> prepare_computations(xs[k], TestRay, xs),
               containers |-> containers_loop_containers(xs[k], xs, 1, << >>)]
    /\ NoXsFrame

\* for (k, x) in xs.iter().enumerate(): x.prepare_computations(r, &xs), as
\* tests::finding_n1_and_n2_at_various_intersections does
CallPrepareEach ==
    /\ res' = [op |-> "prepare each",
               out |-> [k \in 1..Len(xs) |-> prepare_computations(xs[k], TestRay, xs)]]
    /\ NoXsFrame

NextXs ==
    \/ CallHit
    \/ \E k \in 1..Len(xs) : CallPrepare(k)
    \/ CallPrepareEach

SpecXs == InitXs /\ [][NextXs]_vars

(***************************************************************************)
(* Properties of hit and prepare_computations (SpecXs)                     *)
(***************************************************************************)
SortedByTime(l) == \A i \in 1..(Len(l) - 1) : l[i].time <= l[i + 1].time

\* the containers entered and not left again along l: a shape leaves on its
\* second crossing, wherever it sits in the list
RECURSIVE Entered(_)
Entered(l) ==
    IF l = << >> THEN << >>
    ELSE LET before == Entered(SubSeq(l, 1, Len(l) - 1))
             s == l[Len(l)].object
         IN  IF \E i \in 1..Len(before) : ShapeEq(before[i], s)
             THEN SelectSeq(before, LAMBDA c : ~ShapeEq(c, s))
             ELSE Append(before, s)

IndexOfLast(cs) == IF cs = << >> THEN One ELSE cs[Len(cs)].material.refractive_index

\* the place of the query in l: the first element equal to it
QueryPlace(l, k) == CHOOSE j \in 1..Len(l) :
    /\ IntersectionEq(l[j], l[k])
    /\ \A i \in 1..(j - 1) : ~IntersectionEq(l[i], l[k])

\* C2: for a list sorted by time that holds the query, n1 is the refractive
\* index of the last container just before the query is processed (1.0 when
\* there is none), n2 the one just after its shape has been toggled, and what
\* follows the query in the list has no effect on either.
C2_N1BeforeN2After ==
    (res.op = "prepare" /\ SortedByTime(xs)) =>
        LET j == QueryPlace(xs, res.k)
        IN  /\ res.out.n[1] = IndexOfLast(Entered(SubSeq(xs, 1, j - 1)))
            /\ res.out.n[2] = IndexOfLast(Entered(SubSeq(xs, 1, j)))
            /\ res.out.n = prepare_computations(xs[res.k], TestRay, SubSeq(xs, 1, j)).n

\* a query met inside one shape while it enters another
C2_Witness ==
    /\ res.op = "prepare"
    /\ SortedByTime(xs)
    /\ Len(xs) = 3
    /\ res.k = 2
    /\ res.out.n = <<(15 * One) \div 10, 2 * One>>

ExpectedN ==
    << <<One, (15 * One) \div 10>>, <<(15 * One) \div 10, 2 * One>>,
       <<2 * One, (25 * One) \div 10>>, <<(25 * One) \div 10, (25 * One) \div 10>>,
       <<(25 * One) \div 10, (15 * One) \div 10>>, <<(15 * One) \div 10, One>> >>

\* C3: on the intersections A, B, C, B, C, A of three overlapping spheres of
\* index 1.5, 2.0, 2.5 the pairs (n1, n2) are (1.0,1.5), (1.5,2.0), (2.0,2.5),
\* (2.5,2.5), (2.5,1.5), (1.5,1.0): B leaves the list from below C.
C3_OverlappingSpheres ==
    (res.op = "prepare" /\ xs = TestXs) => res.out.n = ExpectedN[res.k]

\* the fourth intersection: B is left while C is the last container
C3_Witness ==
    /\ res.op = "prepare"
    /\ xs = TestXs
    /\ res.k = 4
    /\ res.out.n = <<(25 * One) \div 10, (25 * One) \div 10>>

\* C4: on any list, sorted or not, hit returns an element of the list whose
\* time is strictly positive and least among the strictly positive times, and
\* returns none exactly when no time of the list is strictly positive.
C4_HitLeastPositive ==
    res.op = "hit" =>
        LET positive == {i \in 1..Len(xs) : xs[i].time > 0}
        IN  IF positive = {} THEN res.out = << >>
            ELSE /\ Len(res.out) = 1
                 /\ \E i \in positive : xs[i] = res.out[1]
                 /\ \A i \in positive : res.out[1].time <= xs[i].time

\* an unsorted list with a time of 0 before its least positive time
C4_Witness ==
    /\ res.op = "hit"
    /\ Len(xs) = 3
    /\ xs[1].time = 2 * One
    /\ xs[2].time = 0
    /\ xs[3].time = One
    /\ res.out = <<xs[3]>>

(***************************************************************************)
(* Properties of the recursion of color_at (Spec, FairSpec)                *)
(***************************************************************************)
ColorAtFrames == {i \in DOMAIN stack : stack[i].fn = "color_at"}

Casters == {i \in DOMAIN stack : stack[i].fn \in {"reflect_color", "refracted_color"}}

RECURSIVE Pow2(_)
Pow2(n) == IF n <= 0 THEN 1 ELSE 2 * Pow2(n - 1)

C1_Bounded ==
    /\ Cardinality(ColorAtFrames) <= budget + 1
    /\ ncalls <= Pow2(budget + 1) - 1
    /\ \A i \in ColorAtFrames :
          /\ stack[i].depth >= 0
          /\ stack[i].depth = budget - Cardinality({j \in ColorAtFrames : j < i})
    /\ \A i \in Casters :
          /\ stack[i].depth = 0 => stack[i].cast = << >>
          /\ stack[i].cast # << >> => stack[i].cast[1].depth = stack[i].depth - 1
          /\ (stack[i].pc = "cast" /\ i < Len(stack)) =>
                /\ stack[i + 1].fn = "color_at"
                /\ stack[i + 1].depth = stack[i].depth - 1

\* the steps a call of fn with budget d takes at most, its callees' included
RECURSIVE Cost(_, _)
Cost(fn, d) ==
    CASE fn = "color_at" -> 3 + Cost("shade_hit", d)
      [] fn = "shade_hit" -> 4 + 2 * Cost("reflect_color", d)
      [] OTHER -> IF d <= 0 THEN 2 ELSE 3 + Cost("color_at", d - 1)

\* the steps a frame has left, with those of the callees it has yet to call
Remaining(f) ==
    CASE f.pc = "start" -> Cost(f.fn, f.depth)
      [] f.pc = "reflecting" -> 3 + Cost("refracted_color", f.depth)
      [] f.pc \in {"shading", "refracting", "cast"} -> 2
      [] OTHER -> 1

RECURSIVE RankOf(_)
RankOf(st) == IF st = << >> THEN 0 ELSE Remaining(Head(st)) + RankOf(Tail(st))

Rank == RankOf(stack)

\* C1: color_at(ray, d) terminates in every world: every step of a running
\* call lowers a bound on the steps left; a recursive color_at call has a
\* budget one less than its caller's, none is made at budget 0, at most d + 1
\* color_at calls are nested and at most 2^(d+1) - 1 are made in all.
C1_Terminates ==
    /\ []C1_Bounded
    /\ [][stack # << >> => RankOf(stack') < RankOf(stack)]_vars

\* two facing mirrors: the recursion is stopped by the budget alone
C1_Witness ==
    /\ world.objects = <<lower, upper>>
    /\ budget = MaxDepth
    /\ Cardinality(ColorAtFrames) = budget + 1
    /\ ncalls = budget + 1
    /\ At("reflect_color", "ret")
    /\ Top.depth = 0
    /\ Top.comps.i.object.material.reflective = One

(***************************************************************************)
(* Properties of World (Spec).  The colours the functions of World are     *)
(* to return are written here as functions of the world, the ray and the   *)
(* budget, and the values the running calls return are compared to them.   *)
(***************************************************************************)
SeqBag(l) ==
    [e \in {l[i] : i \in DOMAIN l} |-> Cardinality({i \in DOMAIN l : l[i] = e})]

RECURSIVE ShapesBag(_, _)
ShapesBag(objects, r) ==
    IF objects = << >> THEN EmptyBag
    ELSE SeqBag(Shape_intersects(Head(objects), r)) (+) ShapesBag(Tail(objects), r)

RECURSIVE ShapesCount(_, _)
ShapesCount(objects, r) ==
    IF objects = << >> THEN 0
    ELSE Len(Shape_intersects(Head(objects), r)) + ShapesCount(Tail(objects), r)

Intersected == {i \in ColorAtFrames : stack[i].pc # "start"}

\* C5: World.intersects(ray) holds exactly the intersections of every shape
\* of the world with the ray, each as often as the shapes return it, in an
\* order of non-decreasing time.
C5_IntersectsIsSortedUnion ==
    \A i \in Intersected :
        /\ SeqBag(stack[i].xs) = ShapesBag(world.objects, stack[i].r)
        /\ Len(stack[i].xs) = ShapesCount(world.objects, stack[i].r)
        /\ SortedByTime(stack[i].xs)

\* two shapes whose hits interleave, so that sorting reorders them
C5_Witness ==
    \E i \in Intersected :
        /\ Len(world.objects) = 2
        /\ Len(stack[i].xs) = 4
        /\ stack[i].xs # collect(world.objects, stack[i].r)
        /\ stack[i].xs[1].object # stack[i].xs[2].object

\* the intersection of l with the least strictly positive time
LeastPositive(l) ==
    LET positive == {i \in 1..Len(l) : l[i].time > 0}
    IN  IF positive = {} THEN << >>
        ELSE << l[CHOOSE i \in positive : \A j \in positive :
                    \/ l[i].time < l[j].time
                    \/ (l[i].time = l[j].time /\ i <= j)] >>

TotalInternalReflection(comps) ==
    LET ratio == Div(comps.n[1], comps.n[2])
        c == dot(comps.eye_v, comps.normal_v)
    IN  Mul(Mul(ratio, ratio), One - Mul(c, c)) > One

Surface(w, comps) ==
    lighting(comps.i.object.material, w.lights[1], comps.i.object, comps.over_point,
             comps.eye_v, comps.normal_v, is_shadowed(w, comps.over_point))

RECURSIVE ColorOf(_, _, _)
Reflected(w, comps, depth) ==
    IF depth = 0 \/ comps.i.object.material.reflective = 0 THEN black
    ELSE CScale(ColorOf(w, Ray(comps.over_point, comps.reflect_v), depth - 1),
                comps.i.object.material.reflective)

Refracted(w, comps, depth) ==
    IF \/ comps.i.object.material.transparency = 0
       \/ depth = 0
       \/ TotalInternalReflection(comps)
    THEN black
    ELSE CScale(ColorOf(w, refracted_ray(comps), depth - 1),
                comps.i.object.material.transparency)

Shaded(w, comps, depth) ==
    CAdd(CAdd(Surface(w, comps), Reflected(w, comps, depth)), Refracted(w, comps, depth))

ColorOf(w, r, depth) ==
    LET l == World_intersects(w, r)
        h == LeastPositive(l)
    IN  IF h = << >> THEN black ELSE Shaded(w, prepare_computations(h[1], r, l), depth)

Returning(fn) == stack # << >> /\ Top.fn = fn /\ Top.pc = "ret"

NoPositiveTime(l) == \A i \in 1..Len(l) : l[i].time <= 0

\* C7 as stated: color_at returns black exactly when no intersection of the
\* ray with the world has a strictly positive time.
C7_BlackExactlyOnMiss ==
    Returning("color_at") =>
        (Top.out = black <=> NoPositiveTime(World_intersects(world, Top.r)))

\* C7 as amended: color_at returns black whenever no intersection has a
\* strictly positive time, and otherwise what shade_hit returns (black or
\* not) for the computations prepared for the intersection of least strictly
\* positive time: an intersection at a time <= 0 never decides the colour.
C7_BlackOnMissElseShaded ==
    Returning("color_at") =>
        LET l == World_intersects(world, Top.r)
        IN  /\ NoPositiveTime(l) => Top.out = black
            /\ ~NoPositiveTime(l) =>
                  /\ Top.hit = LeastPositive(l)
                  /\ Top.out = Shaded(world, prepare_computations(Top.hit[1], Top.r, l),
                                      Top.depth)

\* a ray that starts between two hits: the one behind it is passed over
C7_Witness ==
    /\ Returning("color_at")
    /\ Len(Top.xs) >= 2
    /\ Top.xs[1].time < 0
    /\ Top.hit # << >>
    /\ Top.hit[1] # Top.xs[1]
    /\ Top.out # black

\* C8: reflect_color returns black without casting a ray when depth = 0 or
\* the material's reflective is 0; otherwise it casts one ray from over_point
\* along reflect_v with budget depth - 1 and returns that ray's colour times
\* reflective.
C8_ReflectColor ==
    Returning("reflect_color") =>
        IF Top.depth = 0 \/ Top.comps.i.object.material.reflective = 0
        THEN Top.out = black /\ Top.cast = << >>
        ELSE /\ Top.cast = <<[r |-> Ray(Top.comps.over_point, Top.comps.reflect_v),
                              depth |-> Top.depth - 1]>>
             /\ Top.out = CScale(ColorOf(world, Top.cast[1].r, Top.depth - 1),
                                 Top.comps.i.object.material.reflective)

\* a half-reflective surface that mirrors something that is not black
C8_Witness ==
    /\ Returning("reflect_color")
    /\ Top.depth > 0
    /\ Top.comps.i.object.material.reflective = One \div 2
    /\ Top.cast # << >>
    /\ Top.color # black
    /\ Top.out # Top.color

\* C9: refracted_color returns black without casting a ray when transparency
\* is 0, or depth is 0, or (n1/n2)^2 * (1 - cos_i^2) > 1; otherwise it casts
\* exactly one ray, from under_point with budget depth - 1, and returns that
\* ray's colour times transparency.
C9_RefractedColor ==
    Returning("refracted_color") =>
        IF \/ Top.comps.i.object.material.transparency = 0
           \/ Top.depth = 0
           \/ TotalInternalReflection(Top.comps)
        THEN Top.out = black /\ Top.cast = << >>
        ELSE /\ Len(Top.cast) = 1
             /\ Top.cast[1].r.origin = Top.comps.under_point
             /\ Top.cast[1].depth = Top.depth - 1
             /\ Top.out = CScale(ColorOf(world, Top.cast[1].r, Top.depth - 1),
                                 Top.comps.i.object.material.transparency)

\* total internal reflection: a transparent surface met with budget left
C9_Witness ==
    /\ Returning("refracted_color")
    /\ Top.comps.i.object.material.transparency > 0
    /\ Top.depth > 0
    /\ TotalInternalReflection(Top.comps)
    /\ Top.cast = << >>

\* C10: shade_hit returns surface + reflect_color(comps, depth) +
\* refracted_color(comps, depth), the plain sum, and hands both its own comps
\* and its own depth.
C10_ShadeHitSum ==
    /\ Returning("shade_hit") =>
          Top.out = CAdd(CAdd(Surface(world, Top.comps),
                              Reflected(world, Top.comps, Top.depth)),
                         Refracted(world, Top.comps, Top.depth))
    /\ \A i \in DOMAIN stack :
          (stack[i].fn = "shade_hit" /\ i < Len(stack)) =>
              /\ stack[i + 1].fn =
                    (IF stack[i].pc = "reflecting" THEN "reflect_color" ELSE "refracted_color")
              /\ stack[i + 1].depth = stack[i].depth
              /\ stack[i + 1].comps = stack[i].comps

\* a material both reflective and transparent, with both terms not black
C10_Witness ==
    /\ Returning("shade_hit")
    /\ Top.depth > 0
    /\ Top.comps.i.object.material.reflective > 0
    /\ Top.comps.i.object.material.transparency > 0
    /\ Top.reflected # black
    /\ Top.refracted # black
    /\ Top.out = CAdd(CAdd(Top.surface, Top.reflected), Top.refracted)

(***************************************************************************)
(* Properties of Shape (SpecShape)                                         *)
(***************************************************************************)
\* C6: in every state of a Shape that its public interface can reach,
\* transform_inverse is the inverse of transform.
C6_InverseCached == MatEq(shape.transform_inverse, inverse(shape.transform))

(***************************************************************************)
(* world.rs: the values color_at, shade_hit, reflect_color and             *)
(* refracted_color return, as functions of their arguments.                *)
(***************************************************************************)
RECURSIVE World_color_at(_, _, _)
World_reflect_color(w, comps, depth) ==
    IF reflect_color_stops(comps, depth) THEN black
    ELSE reflect_color_result(
             World_color_at(w, reflect_ray(comps), reflect_color_depth(depth)), comps)

World_refracted_color(w, comps, depth) ==
    IF refracted_color_stops(comps, depth) \/ total_internal_reflection(comps) THEN black
    ELSE refracted_color_result(
             World_color_at(w, refracted_ray(comps), refracted_color_depth(depth)), comps)

World_shade_hit(w, comps, depth) ==
    shade_hit_result(shade_hit_surface(w, comps),
                     World_reflect_color(w, comps, shade_hit_reflect_depth(depth)),
                     World_refracted_color(w, comps, shade_hit_refract_depth(depth)))

World_color_at(w, r, depth) ==
    LET l == World_intersects(w, r)
        h == hit(l)
    IN  IF h = << >> THEN black
        ELSE World_shade_hit(w, prepare_computations(h[1], r, l), depth)

(***************************************************************************)
(* Specification SpecShade: shade_hit, is_shadowed and lighting called on  *)
(* worlds of one or two lights, as the tests of world.rs and material.rs   *)
(* call them.                                                              *)
(***************************************************************************)
\* a second light, below the shapes, pushed after the first
LowLight == Light(point(0, -3 * One, 0), white)

\* tests::shade_hit_given_intersection_in_shadow
ShadowWorld ==
    World(<<Light(point(0, 0, -10 * One), white)>>,
          <<Shape_sphere, with_transform(Shape_sphere, translation(0, 0, 10 * One))>>)

ShadowRay == Ray(point(0, 0, 5 * One), vector(0, 0, One))

ShadeWorlds ==
    Worlds \cup {[w EXCEPT !.lights = <<TheLight, LowLight>>] : w \in Worlds}
           \cup {ShadowWorld}

\* points whose shadow is asked for: below, between and beside the shapes
ShadowPoints ==
    {point(0, -3 * One, 0), point(0, -(3 * One) \div 2, 0), point(0, 3 * One, 0),
     point(-3 * One, 0, 0), point(0, 0, 5 * One)}

InitShade ==
    /\ world \in ShadeWorlds
    /\ res = [op |-> None]
    /\ xs = << >>
    /\ IdleTrace
    /\ IdleRender
    /\ IdleShape

\* w.shade_hit(hit.prepare_computations(r, &xs), depth)
CallShadeHit(r, depth) ==
    /\ res.op = None
    /\ (world = ShadowWorld) = (r = ShadowRay)
    /\ LET l == World_intersects(world, r)
           h == hit(l)
       IN  /\ h # << >>
           /\ LET comps == prepare_computations(h[1], r, l)
              IN  res' = [op |-> "shade_hit", comps |-> comps, depth |-> depth,
                          surface |-> shade_hit_surface(world, comps),
                          out |-> World_shade_hit(world, comps, depth)]
    /\ NoXsFrame

\* w.is_shadowed(p)
CallIsShadowed(p) ==
    /\ res.op = None
    /\ (world = ShadowWorld) = (p = ShadowRay.origin)
    /\ res' = [op |-> "is_shadowed", p |-> p, out |-> is_shadowed(world, p)]
    /\ NoXsFrame

\* m.lighting(light, shape, pt, eyev, normalv, in_shadow)
CallLighting(m, light, eyev, normalv, in_shadow) ==
    /\ res.op = None
    /\ world = ShadowWorld
    /\ res' = [op |-> "lighting", m |-> m, light |-> light, eyev |-> eyev,
               normalv |-> normalv, in_shadow |-> in_shadow,
               out |-> lighting(m, light, Shape_sphere, point(0, 0, 0), eyev, normalv,
                                in_shadow)]
    /\ NoXsFrame

NextShade ==
    \/ \E r \in Rays \cup {ShadowRay}, depth \in Depths : CallShadeHit(r, depth)
    \/ \E p \in ShadowPoints : CallIsShadowed(p)
    \/ \E m \in Materials \cup {floor.material,
                                with_pattern(Shape_sphere, Pattern("Stripe", black, white)).material},
          light \in {TheLight, LowLight},
          eyev \in {vector(0, 0, -One), vector(0, One, 0)},
          normalv \in {vector(0, 0, -One), vector(0, One, 0)},
          in_shadow \in BOOLEAN :
            CallLighting(m, light, eyev, normalv, in_shadow)

SpecShade == InitShade /\ [][NextShade]_vars

(***************************************************************************)
(* Properties of shade_hit, is_shadowed and lighting (SpecShade)           *)
(***************************************************************************)
\* some shape meets the ray from p toward the light strictly between p and
\* the light
Blocked(w, light, p) ==
    LET v == TSub(light.position, p)
        distance == mag(v)
        r == Ray(p, norm(v))
    IN  \E i \in DOMAIN w.objects :
            LET l == Shape_intersects(w.objects[i], r)
            IN  \E k \in DOMAIN l : l[k].time > 0 /\ l[k].time < distance

RECURSIVE SumOfLights(_, _, _)
SumOfLights(w, comps, k) ==
    IF k = 0 THEN black
    ELSE CAdd(SumOfLights(w, comps, k - 1),
              lighting(comps.i.object.material, w.lights[k], comps.i.object,
                       comps.over_point, comps.eye_v, comps.normal_v,
                       Blocked(w, w.lights[k], comps.over_point)))

\* C11: the surface term of shade_hit is the sum, over every light of the
\* world in order, of lighting for that light with that light's own shadow
\* test.
C11_SurfaceSumsLights ==
    res.op = "shade_hit" =>
        res.surface = SumOfLights(world, res.comps, Len(world.lights))

\* C12: is_shadowed(p) is true exactly when some shape meets the ray from p
\* toward the first light at a time t with 0 < t < |light.position - p|.
C12_ShadowedExactlyBetween ==
    res.op = "is_shadowed" => (res.out <=> Blocked(world, world.lights[1], res.p))

\* a shape beyond the light or behind the point, and no shadow
C12_Witness ==
    /\ res.op = "is_shadowed"
    /\ ~res.out
    /\ LET v == TSub(world.lights[1].position, res.p)
           l == World_intersects(world, Ray(res.p, norm(v)))
       IN  /\ \E k \in DOMAIN l : l[k].time >= mag(v)
           /\ \E k \in DOMAIN l : l[k].time <= 0

\* C20: lighting with in_shadow = true returns exactly the effective colour
\* times the ambient coefficient, whatever the light, eye and normal; and
\* shade_hit of the shadowed point of the test world, default material and
\* white light, is (0.1, 0.1, 0.1).
C20_ShadowIsAmbientOnly ==
    /\ (res.op = "lighting" /\ res.in_shadow) =>
          res.out = CScale(CMul(IF res.m.pattern = << >> THEN res.m.color
                                ELSE pattern_at_shape(res.m.pattern[1], Shape_sphere,
                                                      point(0, 0, 0)),
                                res.light.intensity),
                           res.m.ambient)
    /\ (res.op = "shade_hit" /\ world = ShadowWorld) =>
          res.out = Color(One \div 10, One \div 10, One \div 10)

\* a shadowed surface facing the light, which unshadowed would be brighter
C20_Witness ==
    /\ res.op = "lighting"
    /\ res.in_shadow
    /\ res.out # black
    /\ res.out # lighting(res.m, res.light, Shape_sphere, point(0, 0, 0), res.eyev,
                          res.normalv, FALSE)


\* f64::tan, on the half angles of the fields of view used
Tan(a) ==
    CASE a = 785 -> One
      [] a = 523 -> 577

\* Camera::new with Camera::pixel_size
Camera_new(hsize, vsize, fov) ==
    LET half_view == Tan(Div(fov, 2 * One))
        aspect_ratio == Div(hsize * One, vsize * One)
        half_width == IF aspect_ratio >= One THEN half_view ELSE Mul(half_view, aspect_ratio)
        half_height == IF aspect_ratio >= One THEN Div(half_view, aspect_ratio) ELSE half_view
    IN  [hsize |-> hsize, vsize |-> vsize, fov |-> fov, transform |-> identity,
         pixel_size |-> Div(Mul(half_width, 2 * One), hsize * One),
         half_width |-> half_width, half_height |-> half_height]

ray_for_pixel(self, x, y) ==
    LET offset_x == Mul(x * One + One \div 2, self.pixel_size)
        offset_y == Mul(y * One + One \div 2, self.pixel_size)
        world_x == self.half_width - offset_x
        world_y == self.half_height - offset_y
        pixel == MatTuple(inverse(self.transform), point(world_x, world_y, -One))
        origin == MatTuple(inverse(self.transform), point(0, 0, 0))
    IN  Ray(origin, norm(TSub(pixel, origin)))

Canvas_new(width, height) ==
    [width |-> width, height |-> height, pixels |-> [k \in 1..(width * height) |-> black]]

\* a raster index that takes the height for the length of a row
to_xy_by_height(self, x, y) == x + y * self.height

to_xy(self, x, y) == x + y * self.width

\* the assertions of write_pixel and the bounds check of the Vec
write_pixel_panics(self, x, y) ==
    ~(x < self.width) \/ ~(y < self.height) \/ ~(to_xy(self, x, y) < Len(self.pixels))

write_pixel(self, x, y, color) == [self EXCEPT !.pixels[to_xy(self, x, y) + 1] = color]

\* the depth render hands color_at
render_depth == MAX_REFLECTIONS

(***************************************************************************)
(* Specification SpecRender: Camera::render; the color_at it calls runs as  *)
(* the frames of `stack` do under Spec.                                    *)
(***************************************************************************)
MaxSide == 3

\* fields of view of pi/2 and pi/3
Cameras ==
    {Camera_new(hsize, vsize, fov) : hsize \in 1..MaxSide, vsize \in 1..MaxSide,
                                     fov \in {1571, 1047}}

RenderWorlds ==
    {World(<<TheLight>>, objs) : objs \in {<<glass>>, <<bubble>>, <<glass, bubble>>}}

InitRender ==
    /\ world \in RenderWorlds
    /\ camera \in Cameras
    /\ image = << >>
    /\ at = [pc |-> "idle", x |-> 0, y |-> 0]
    /\ writes = << >>
    /\ IdleTrace
    /\ IdleShape
    /\ IdleXs

\* let mut image = Canvas::new(self.hsize, self.vsize), and the loops begin
RenderStart ==
    /\ at.pc = "idle"
    /\ image' = Canvas_new(camera.hsize, camera.vsize)
    /\ at' = IF camera.vsize > 0 /\ camera.hsize > 0
             THEN [pc |-> "loop", x |-> 0, y |-> 0]
             ELSE [at EXCEPT !.pc = "done"]
    /\ UNCHANGED <<world, stack, ret, ncalls, budget, shape, prev, xs, res, camera, writes>>

\* the loop body up to the call: let r = self.ray_for_pixel(x, y); world.color_at(r, ..)
RenderCast ==
    /\ at.pc = "loop"
    /\ stack = << >>
    /\ Push(ColorAtFrame(ray_for_pixel(camera, at.x, at.y), render_depth))
    /\ ncalls' = 1
    /\ budget' = render_depth
    /\ at' = [at EXCEPT !.pc = "color"]
    /\ UNCHANGED <<world, ret, shape, prev, xs, res, camera, image, writes>>

\* the loop body after the call: image.write_pixel(x, y, color); the loops advance
RenderWrite ==
    /\ at.pc = "color"
    /\ stack = << >>
    /\ IF write_pixel_panics(image, at.x, at.y)
       THEN /\ at' = [at EXCEPT !.pc = "panic"]
            /\ UNCHANGED <<image, writes>>
       ELSE /\ image' = write_pixel(image, at.x, at.y, ret)
            /\ writes' = Append(writes, [x |-> at.x, y |-> at.y, color |-> ret,
                                         index |-> to_xy(image, at.x, at.y)])
            /\ at' = IF at.x + 1 < camera.hsize
                     THEN [at EXCEPT !.pc = "loop", !.x = at.x + 1]
                     ELSE IF at.y + 1 < camera.vsize
                          THEN [at EXCEPT !.pc = "loop", !.x = 0, !.y = at.y + 1]
                          ELSE [at EXCEPT !.pc = "done"]
    /\ UNCHANGED <<world, stack, ret, ncalls, budget, shape, prev, xs, res, camera>>

NextRender ==
    \/ RenderStart
    \/ RenderCast
    \/ Step
    \/ RenderWrite

SpecRender == InitRender /\ [][NextRender]_vars

(***************************************************************************)
(* C13                                                                     *)
(***************************************************************************)
\* the place of pixel (x, y) in a row-major raster hsize wide
RowMajor(x, y) == x + y * camera.hsize

PixelWritten(x, y) == \E k \in 1..Len(writes) : writes[k].x = x /\ writes[k].y = y

\* render's own call of color_at is the bottom frame of the stack
RenderCall == stack[1]

WritesInRaster ==
    \A k \in 1..Len(writes) :
        /\ writes[k].x \in 0..(camera.hsize - 1)
        /\ writes[k].y \in 0..(camera.vsize - 1)
        /\ writes[k].index = RowMajor(writes[k].x, writes[k].y)
        /\ image.pixels[RowMajor(writes[k].x, writes[k].y) + 1] = writes[k].color

WritesOnce ==
    \A j, k \in 1..Len(writes) :
        (writes[j].x = writes[k].x /\ writes[j].y = writes[k].y) => j = k

WritesAll ==
    at.pc = "done" =>
        /\ Len(image.pixels) = camera.hsize * camera.vsize
        /\ Len(writes) = camera.hsize * camera.vsize
        /\ \A x \in 0..(camera.hsize - 1), y \in 0..(camera.vsize - 1) : PixelWritten(x, y)

CastsPixelRay ==
    (at.pc = "color" /\ stack # << >>) =>
        /\ RenderCall.fn = "color_at"
        /\ RenderCall.r = ray_for_pixel(camera, at.x, at.y)
        /\ RenderCall.depth = 10

\* the value color_at returns to render is the value written at (x, y)
WritesReturned ==
    /\ (at.pc = "color" /\ Len(stack) = 1 /\ stack' = << >>) => ret' = RenderCall.out
    /\ (at.pc = "color" /\ at'.pc # "color") =>
           /\ writes' = Append(writes, [x |-> at.x, y |-> at.y, color |-> ret,
                                        index |-> RowMajor(at.x, at.y)])
           /\ image'.pixels[RowMajor(at.x, at.y) + 1] = ret
    /\ (at.pc # "color" \/ at'.pc = "color") => writes' = writes

WorldParts(w) ==
    [lights |-> w.lights,
     objects |-> [i \in 1..Len(w.objects) |->
                    [object |-> w.objects[i].object,
                     transform |-> w.objects[i].transform,
                     transform_inverse |-> w.objects[i].transform_inverse,
                     material |-> w.objects[i].material]]]

\* C14: during render and during any call of color_at, shade_hit,
\* reflect_color, refracted_color, intersects or is_shadowed the world's
\* lights, its shapes and each shape's transform, transform_inverse and
\* material stay as they were.
C14_WorldUnchanged == [][WorldParts(world)' = WorldParts(world)]_vars

\* a render under way: a pixel is written and the recursion for the next one
\* is several calls deep
C14_Witness ==
    /\ at.pc = "color"
    /\ Len(writes) >= 1
    /\ Len(stack) >= 6
    /\ Top.fn = "refracted_color"
    /\ Len(world.objects) = 2

(***************************************************************************)
(* C15                                                                     *)
(***************************************************************************)
MaterialCalls == {"with_material", "set_material", "with_pattern", "set_pattern"}

TransformCalls == {"with_transform", "set_transform"}

BuilderCalls == {"with_transform", "with_material", "with_pattern"}

\* C15: with_material, set_material, with_pattern and set_pattern leave
\* transform and transform_inverse as they were; with_transform and
\* set_transform leave the material (pattern included) and the kind of
\* geometry as they were; a builder returns a modified copy and leaves the
\* Shape it was called on as it was.
C15_BuildersKeepTheRest ==
    /\ res.op \in MaterialCalls =>
           /\ shape.transform = prev.transform
           /\ shape.transform_inverse = prev.transform_inverse
    /\ res.op \in TransformCalls =>
           /\ shape.material = prev.material
           /\ shape.object = prev.object
    /\ res.op \in BuilderCalls =>
           /\ res.self = prev
           /\ res.out = <<shape>>

\* a transformed, patterned Shape was given another material by the builder:
\* the copy returned differs from the Shape the builder was called on
C15_Witness ==
    /\ res.op = "with_material"
    /\ prev.transform # identity
    /\ prev.material.pattern # << >>
    /\ shape.material # prev.material
    /\ res.self # shape

(***************************************************************************)
(* Specification SpecAlgebra: one chain of Mat4 builder calls, or one call *)
(* of a Tuple or Mat4 operation, on values the tests use.                  *)
(***************************************************************************)
MaxChain == 3

\* a quarter turn, pi / 2
QuarterTurn == 1571

HalfTurn == 3142

ChainBases == {identity, rot_z(QuarterTurn)}

\* tests of tuple.rs and transformations.rs: vectors and points
Tuples ==
    {vector(One, 2 * One, 3 * One), vector(2 * One, 3 * One, 4 * One),
     vector(-3 * One, 4 * One, 5 * One), vector(0, One, 0),
     point(One, 2 * One, 3 * One), point(-3 * One, 4 * One, 5 * One), point(0, 0, 0)}

Offsets == {<<5 * One, -3 * One, 2 * One>>, <<10 * One, 5 * One, 7 * One>>, <<0, 0, 0>>}

\* matrices with an inverse the fixed-point values hold exactly
Basics ==
    {identity, translation(10 * One, 5 * One, 7 * One), scaling(2 * One, 2 * One, 2 * One),
     scaling(One \div 2, One, 2 * One), rot_x(QuarterTurn), rot_y(QuarterTurn),
     rot_z(HalfTurn), shearing(One, 0, 0, 0, 0, 0), shearing(0, 0, 0, 2 * One, One, 0)}

Invertibles == {MatMul(f, g) : f, g \in Basics}

InitAlgebra ==
    /\ IdleWorld
    /\ IdleTrace
    /\ IdleRender
    /\ IdleShape
    /\ IdleXs

NoScene ==
    UNCHANGED <<world, stack, ret, ncalls, budget, shape, prev, xs, camera, image, at, writes>>

\* let m = base
ChainBase(base) ==
    /\ res.op = None
    /\ res' = [op |-> "chain", base |-> base, steps |-> << >>, m |-> base]
    /\ NoScene

Chaining == res.op = "chain" /\ Len(res.steps) < MaxChain

\* m.translation(x, y, z)
ChainTranslation(x, y, z) ==
    /\ Chaining
    /\ res' = [res EXCEPT !.m = Mat4_translation(res.m, x, y, z),
                          !.steps = Append(@, translation(x, y, z))]
    /\ NoScene

\* m.scaling(x, y, z)
ChainScaling(x, y, z) ==
    /\ Chaining
    /\ res' = [res EXCEPT !.m = Mat4_scaling(res.m, x, y, z),
                          !.steps = Append(@, scaling(x, y, z))]
    /\ NoScene

\* m.rot_x(angle)
ChainRotX(angle) ==
    /\ Chaining
    /\ res' = [res EXCEPT !.m = Mat4_rot_x(res.m, angle), !.steps = Append(@, rot_x(angle))]
    /\ NoScene

\* m.rot_y(angle)
ChainRotY(angle) ==
    /\ Chaining
    /\ res' = [res EXCEPT !.m = Mat4_rot_y(res.m, angle), !.steps = Append(@, rot_y(angle))]
    /\ NoScene

\* m.rot_z(angle)
ChainRotZ(angle) ==
    /\ Chaining
    /\ res' = [res EXCEPT !.m = Mat4_rot_z(res.m, angle), !.steps = Append(@, rot_z(angle))]
    /\ NoScene

\* m.shearing(xy, xz, yx, yz, zx, zy)
ChainShearing(xy, xz, yx, yz, zx, zy) ==
    /\ Chaining
    /\ res' = [res EXCEPT !.m = Mat4_shearing(res.m, xy, xz, yx, yz, zx, zy),
                          !.steps = Append(@, shearing(xy, xz, yx, yz, zx, zy))]
    /\ NoScene

\* a call that panics returns nothing
Outcome(panics, value) == IF panics THEN << >> ELSE <<value>>

\* a.mag()
CallMag(a) ==
    /\ res.op = None
    /\ res' = [op |-> "mag", args |-> <<a>>, out |-> Outcome(mag_panics(a), mag(a))]
    /\ NoScene

\* a.norm()
CallNorm(a) ==
    /\ res.op = None
    /\ a # point(0, 0, 0)
    /\ res' = [op |-> "norm", args |-> <<a>>, out |-> Outcome(norm_panics(a), norm(a))]
    /\ NoScene

\* a.dot(b)
CallDot(a, b) ==
    /\ res.op = None
    /\ res' = [op |-> "dot", args |-> <<a, b>>, out |-> Outcome(dot_panics(a, b), dot(a, b))]
    /\ NoScene

\* a.cross(b)
CallCross(a, b) ==
    /\ res.op = None
    /\ res' = [op |-> "cross", args |-> <<a, b>>,
               out |-> Outcome(cross_panics(a, b), cross(a, b))]
    /\ NoScene

\* a.reflect(&normal)
CallReflect(a, normal) ==
    /\ res.op = None
    /\ res' = [op |-> "reflect", args |-> <<a, normal>>,
               out |-> Outcome(reflect_panics(a, normal), reflect(a, normal))]
    /\ NoScene

\* translation(x, y, z) * t
CallTranslate(by, t) ==
    /\ res.op = None
    /\ res' = [op |-> "translate", by |-> by, args |-> <<t>>,
               out |-> <<MatTuple(translation(by[1], by[2], by[3]), t)>>]
    /\ NoScene

\* b * b.inverse() and (a * b) * b.inverse()
CallInverse(a, b) ==
    /\ res.op = None
    /\ res' = [op |-> "inverse", a |-> a, b |-> b,
               round |-> MatMul(b, inverse(b)),
               back |-> MatMul(MatMul(a, b), inverse(b))]
    /\ NoScene

NextAlgebra ==
    \/ \E base \in ChainBases : ChainBase(base)
    \/ ChainTranslation(10 * One, 5 * One, 7 * One)
    \/ ChainScaling(5 * One, 5 * One, 5 * One)
    \/ ChainRotX(QuarterTurn)
    \/ ChainRotY(QuarterTurn)
    \/ ChainRotZ(QuarterTurn)
    \/ ChainShearing(One, 0, 0, 0, 0, 0)
    \/ \E a \in Tuples : CallMag(a)
    \/ \E a \in Tuples : CallNorm(a)
    \/ \E a, b \in Tuples : CallDot(a, b)
    \/ \E a, b \in Tuples : CallCross(a, b)
    \/ \E a, b \in Tuples : CallReflect(a, b)
    \/ \E by \in Offsets, t \in Tuples : CallTranslate(by, t)
    \/ \E a \in Basics, b \in Invertibles : CallInverse(a, b)

SpecAlgebra == InitAlgebra /\ [][NextAlgebra]_vars

(***************************************************************************)
(* C16                                                                     *)
(***************************************************************************)
\* F_k * ... * F_1 for the steps <<F_1, ..., F_k>>, multiplied from the left
\* as the expression is written
RECURSIVE ProductFrom(_, _, _)
ProductFrom(acc, steps, k) ==
    IF k = 0 THEN acc ELSE ProductFrom(MatMul(acc, steps[k]), steps, k - 1)

ChainProduct(steps, base) == MatMul(ProductFrom(identity, steps, Len(steps)), base)

Swapped(steps, j) == [steps EXCEPT ![j] = steps[j + 1], ![j + 1] = steps[j]]

\* C16: the chain base.f1(..). ... .fk(..) of builder calls is the matrix
\* F_k * ... * F_1 * base: the call written last is applied last.
C16_ChainIsProduct ==
    res.op = "chain" => MatEq(res.m, ChainProduct(res.steps, res.base))

\* tests::chained_transformations_must_be_applied_in_reverse_order: a chain of
\* three calls, whose value differs from that of the chain with its last two
\* calls swapped
C16_Witness ==
    /\ res.op = "chain"
    /\ Len(res.steps) = 3
    /\ res.base = identity
    /\ ~MatEq(res.m, ChainProduct(Swapped(res.steps, 2), res.base))
    /\ MatTuple(res.m, point(One, 0, One)) = point(15 * One, 0, 7 * One)

(***************************************************************************)
(* C17                                                                     *)
(***************************************************************************)
\* C17: M * M.inverse() is the identity for every M whose determinant is not
\* zero, and (A * B) * B.inverse() is A, both up to the tolerance of the
\* matrix equality.
C17_InverseUndoes ==
    (res.op = "inverse" /\ det4(res.b) # 0) =>
        /\ MatEq(res.round, identity)
        /\ MatEq(res.back, res.a)

\* a sheared, unevenly scaled matrix, which its transpose does not equal,
\* was undone after a translation
C17_Witness ==
    /\ res.op = "inverse"
    /\ res.a = translation(10 * One, 5 * One, 7 * One)
    /\ res.b = MatMul(shearing(0, 0, 0, 2 * One, One, 0), scaling(One \div 2, One, 2 * One))
    /\ det4(res.b) = One
    /\ res.back = res.a
    /\ res.b # transpose(res.b)

(***************************************************************************)
(* C18                                                                     *)
(***************************************************************************)
VectorOps == {"mag", "norm", "dot", "cross", "reflect"}

\* C18: every vector-only operation of Tuple (mag, norm, dot, cross, reflect)
\* aborts on a failed assertion when any operand, the receiver or the
\* argument, has w different from 0.
C18_VectorOpsAbortOnPoints ==
    (res.op \in VectorOps /\ \E i \in 1..Len(res.args) : res.args[i].w # 0) =>
        res.out = << >>

\* what the code does: dot returns a value for a point as its argument
C18_DotAcceptsPointArgument ==
    /\ res.op = "dot"
    /\ res.args[1].w = 0
    /\ res.args[2].w # 0
    /\ res.out # << >>

(***************************************************************************)
(* C19                                                                     *)
(***************************************************************************)
\* C19: translation(x, y, z) * v is v for a vector v (w = 0); for a point
\* (w = 1) it is the point moved by (x, y, z), with w still 1.
C19_TranslationMovesPointsOnly ==
    res.op = "translate" =>
        LET t == res.args[1]
            moved == res.out[1]
        IN  /\ t.w = 0 => moved = t
            /\ t.w = One =>
                   /\ moved.x = t.x + res.by[1]
                   /\ moved.y = t.y + res.by[2]
                   /\ moved.z = t.z + res.by[3]
                   /\ moved.w = One

\* tests::test_translation: translation(5, -3, 2) moves the
\* point (-3, 4, 5) to (2, 1, 7)
C19_Witness ==
    /\ res.op = "translate"
    /\ res.by = <<5 * One, -3 * One, 2 * One>>
    /\ res.args = <<point(-3 * One, 4 * One, 5 * One)>>
    /\ res.out = <<point(2 * One, One, 7 * One)>>

(***************************************************************************)
(* C21                                                                     *)
(***************************************************************************)
\* the normal the shape gives at the hit point, before any flip
ShapeNormal(comps) == normal_at(comps.i.object, comps.point)

FacesAway(comps) == dot(ShapeNormal(comps), comps.eye_v) < 0

FlippedTowardsEye(comps) ==
    /\ comps.inside = FacesAway(comps)
    /\ comps.normal_v = IF FacesAway(comps) THEN TNeg(ShapeNormal(comps))
                        ELSE ShapeNormal(comps)
    /\ dot(comps.normal_v, comps.eye_v) >= 0
    /\ comps.dot_eyev_normal_v >= 0
    /\ comps.reflect_v = reflect(TNeg(comps.eye_v), comps.normal_v)
    /\ comps.over_point = TAdd(comps.point, TMul(comps.normal_v, EPSILON))
    /\ comps.under_point = TSub(comps.point, TMul(comps.normal_v, EPSILON))

ShadeHitFrames == {i \in 1..Len(stack) : stack[i].fn = "shade_hit"}

\* C21: prepare_computations sets inside exactly when the shape's normal at
\* the hit point has a negative dot product with the eye vector, and then
\* returns the negated normal; so in every Computations normal_v . eye_v >= 0
\* and dot_eyev_normal_v >= 0, and reflect_v, over_point and under_point come
\* from the normal after the flip.
C21_NormalFacesEye == \A i \in ShadeHitFrames : FlippedTowardsEye(stack[i].comps)

\* a hit from the inside of a shape is being shaded: the normal was flipped
C21_Witness ==
    /\ stack # << >>
    /\ Top.fn = "shade_hit"
    /\ Top.comps.inside
    /\ Top.comps.normal_v = TNeg(ShapeNormal(Top.comps))
    /\ Top.comps.normal_v # ShapeNormal(Top.comps)
    /\ Top.comps.over_point # TAdd(Top.comps.point, TMul(ShapeNormal(Top.comps), EPSILON))

(***************************************************************************)
(* Specification SpecCalls: one call of an operation of a geometry kind, a *)
(* pattern or a matrix, on the values the tests hand over.                 *)
(***************************************************************************)
\* tests of plane.rs and sphere.rs: where rays start and where they point
Origins ==
    {point(0, 0, -5 * One), point(0, One, -5 * One), point(0, 2 * One, -5 * One),
     point(0, 0, 0), point(0, 0, 5 * One), point(0, 10 * One, 0), point(0, One, 0),
     point(0, -One, 0)}

Directions ==
    {vector(0, 0, One), vector(0, -One, 0), vector(0, One, 0), vector(0, 2 * One, One)}

Spheres ==
    {Shape_sphere, with_transform(Shape_sphere, scaling(2 * One, 2 * One, 2 * One)),
     with_transform(Shape_glass_sphere, translation(0, One, 0))}

InitCalls == InitAlgebra

\* Plane.local_intersect(r)
CallPlaneLocalIntersect(r) ==
    /\ res.op = None
    /\ res' = [op |-> "Plane::local_intersect", r |-> r, out |-> Plane_local_intersect(r)]
    /\ NoScene

\* s.intersects(r) for a sphere s
CallSphereIntersects(s, r) ==
    /\ res.op = None
    /\ res' = [op |-> "Sphere::intersects", s |-> s, r |-> r, out |-> Shape_intersects(s, r)]
    /\ NoScene

\* tests::test_sub_3_3, test_minor_3_3, test_det_3x3
Mat3s ==
    {Mat3New(<<One, 5 * One, 0, -3 * One, 2 * One, 7 * One, 0, 6 * One, -3 * One>>),
     Mat3New(<<3 * One, 5 * One, 0, 2 * One, -One, -7 * One, 6 * One, -One, 5 * One>>),
     Mat3New(<<One, 2 * One, 6 * One, -5 * One, 8 * One, -4 * One, 2 * One, 6 * One, 4 * One>>)}

\* tests::test_sub_4_4, test_inverse_4x4
Mat4s ==
    {<< <<-6 * One, One, One, 6 * One>>, <<-8 * One, 5 * One, 8 * One, 6 * One>>,
        <<-One, 0, 8 * One, 2 * One>>, <<-7 * One, One, -One, One>> >>,
     << <<8 * One, -5 * One, 9 * One, 2 * One>>, <<7 * One, 5 * One, 6 * One, One>>,
        <<-6 * One, 0, 9 * One, 6 * One>>, <<-3 * One, 0, -9 * One, -4 * One>> >>,
     translation(5 * One, -3 * One, 2 * One)}

\* m.submatrix(r, c), m.minor(r, c), m.cofactor(r, c) for every r and c,
\* m.det() and m.inverse(), on a 3x3 matrix
CallMat3(m) ==
    /\ res.op = None
    /\ res' = [op |-> "Matrix", n |-> 3, m |-> m,
               submatrix |-> [r \in 1..3 |-> [c \in 1..3 |-> submatrix3(m, r, c)]],
               minor |-> [r \in 1..3 |-> [c \in 1..3 |-> minor3(m, r, c)]],
               cofactor |-> [r \in 1..3 |-> [c \in 1..3 |-> cofactor3(m, r, c)]],
               det |-> det3(m), inverse |-> inverse3(m)]
    /\ NoScene

\* the same on a 4x4 matrix
CallMat4(m) ==
    /\ res.op = None
    /\ res' = [op |-> "Matrix", n |-> 4, m |-> m,
               submatrix |-> [r \in 1..4 |-> [c \in 1..4 |-> submatrix4(m, r, c)]],
               minor |-> [r \in 1..4 |-> [c \in 1..4 |-> minor4(m, r, c)]],
               cofactor |-> [r \in 1..4 |-> [c \in 1..4 |-> cofactor4(m, r, c)]],
               det |-> det4(m), inverse |-> inverse(m)]
    /\ NoScene

\* tests of pattern.rs: the coordinates asked about, and some below zero
PatternPoints ==
    {point(x, y, z) : x \in {0, (9 * One) \div 10, One, -(One \div 10), -One,
                             -((11 * One) \div 10)},
                      y \in {0, One, 2 * One, -(One \div 2)},
                      z \in {0, One, 2 * One, -((3 * One) \div 2)}}

\* pattern.color_at(p)
CallPatternColorAt(pat, p) ==
    /\ res.op = None
    /\ res' = [op |-> "Pattern::color_at", pattern |-> pat, p |-> p,
               out |-> Pattern_color_at(pat, p)]
    /\ NoScene

\* a product that sums as many terms as the matrix has columns
mul_terms_by_size(n) == [k \in 1..n |-> k - 1]

\* Matrix<N> * Matrix<N>: the second index of self and the first of rhs in
\* the four terms of an entry
mul_terms(n) == <<0, 1, 2, 3>>

\* some m[(r, c)] of the product reads data[r][c] outside the N x N arrays
Matrix_mul_panics(n) ==
    LET index_panics(r, c) == r >= n \/ c >= n
        t == mul_terms(n)
    IN  \E row \in 0..(n - 1), col \in 0..(n - 1), k \in 1..Len(t) :
            index_panics(row, t[k]) \/ index_panics(t[k], col)

\* the matrix the product returns when no index panics
Matrix_mul(n, a, b) ==
    LET t == mul_terms(n)
        term(row, col, k) ==
            IF k <= Len(t) THEN Mul(a[row][t[k] + 1], b[t[k] + 1][col]) ELSE 0
    IN  [row \in 1..n |-> [col \in 1..n |->
            term(row, col, 1) + term(row, col, 2) + term(row, col, 3) + term(row, col, 4)]]

Mat2s == {Mat2New(<<One, 5 * One, -3 * One, 2 * One>>), Mat2New(<<One, 0, 0, One>>)}

Mats(n) == IF n = 2 THEN Mat2s ELSE IF n = 3 THEN Mat3s ELSE Mat4s \cup {identity}

\* a * b on two matrices of the same size
CallMatrixMul(n, a, b) ==
    /\ res.op = None
    /\ res' = [op |-> "Matrix::mul", n |-> n, a |-> a, b |-> b,
               out |-> IF Matrix_mul_panics(n) THEN << >> ELSE <<Matrix_mul(n, a, b)>>]
    /\ NoScene

NextCalls ==
    \/ \E o \in Origins, d \in Directions : CallPlaneLocalIntersect(Ray(o, d))
    \/ \E s \in Spheres, o \in Origins, d \in Directions : CallSphereIntersects(s, Ray(o, d))
    \/ \E kind \in {"Stripe", "Checker"}, p \in PatternPoints :
           CallPatternColorAt(Pattern(kind, white, black), p)
    \/ \E m \in Mat3s : CallMat3(m)
    \/ \E m \in Mat4s : CallMat4(m)
    \/ \E n \in 2..4 : \E a \in Mats(n), b \in Mats(n) : CallMatrixMul(n, a, b)

SpecCalls == InitCalls /\ [][NextCalls]_vars

(***************************************************************************)
(* C22                                                                     *)
(***************************************************************************)
\* C22: Plane.local_intersect returns the empty list whenever the ray's
\* direction has |y| below EPSILON, wherever the ray starts, and otherwise
\* exactly one value, -origin.y / direction.y, negative and zero included.
C22_PlaneOneHitUnlessParallel ==
    res.op = "Plane::local_intersect" =>
        IF Abs(res.r.direction.y) < EPSILON
        THEN res.out = << >>
        ELSE /\ Len(res.out) = 1
             /\ res.out[1] = Div(-res.r.origin.y, res.r.direction.y)
             /\ position(res.r, res.out[1]).y = 0

\* a ray that leaves the plane behind it: the one value returned is negative
C22_Witness ==
    /\ res.op = "Plane::local_intersect"
    /\ res.r = Ray(point(0, 10 * One, 0), vector(0, One, 0))
    /\ res.out = << -10 * One >>

(***************************************************************************)
(* C23                                                                     *)
(***************************************************************************)
\* the ray in the space of the sphere, and the discriminant of its quadratic
LocalRay == Ray_transform(res.r, inverse(res.s.transform))

Discriminant ==
    LET o == TSub(LocalRay.origin, point(0, 0, 0))
        d == LocalRay.direction
        a == dot(d, d)
        b == 2 * dot(d, o)
        c == dot(o, o) - One
    IN  Mul(b, b) - 4 * Mul(a, c)

\* C23: a sphere's intersection with a ray is empty (discriminant < 0) or has
\* exactly two intersections, the first no later than the second, both of the
\* sphere asked; the two are returned also when both times are negative and
\* when they are equal.
C23_SphereNoneOrTwo ==
    res.op = "Sphere::intersects" =>
        IF Discriminant < 0
        THEN res.out = << >>
        ELSE /\ Len(res.out) = 2
             /\ res.out[1].time <= res.out[2].time
             /\ res.out[1].object = res.s
             /\ res.out[2].object = res.s

\* tests::a_sphere_is_behind_a_ray: both times are negative and both are
\* returned
C23_Witness ==
    /\ res.op = "Sphere::intersects"
    /\ res.s = Shape_sphere
    /\ res.r = Ray(point(0, 0, 5 * One), vector(0, 0, One))
    /\ Len(res.out) = 2
    /\ res.out[1].time = -6 * One
    /\ res.out[2].time = -4 * One

(***************************************************************************)
(* C24                                                                     *)
(***************************************************************************)
\* m without row r and column c, the entries left in their order
Without(m, n, r, c) ==
    [i \in 1..(n - 1) |-> [j \in 1..(n - 1) |->
        m[IF i < r THEN i ELSE i + 1][IF j < c THEN j ELSE j + 1]]]

RECURSIVE ByCofactors(_, _)
ByCofactors(m, n) ==
    IF n = 2 THEN Mul(m[1][1], m[2][2]) - Mul(m[1][2], m[2][1])
    ELSE LET term(c) == Mul(m[1][c], IF c % 2 = 0 THEN -ByCofactors(Without(m, n, 1, c), n - 1)
                                      ELSE ByCofactors(Without(m, n, 1, c), n - 1))
         IN  IF n = 3 THEN term(1) + term(2) + term(3)
             ELSE term(1) + term(2) + term(3) + term(4)

RowZeroExpansion ==
    LET term(c) == Mul(res.m[1][c], res.cofactor[1][c])
    IN  IF res.n = 3 THEN term(1) + term(2) + term(3)
        ELSE term(1) + term(2) + term(3) + term(4)

\* C24: for 3x3 and 4x4 matrices submatrix(r, c) keeps the remaining entries
\* in row-major order, cofactor(r, c) is minor(r, c), negated exactly when
\* r + c is odd, det is the sum over the columns c of entry(0, c) *
\* cofactor(0, c), ending in ad - bc for 2x2, and inverse has
\* cofactor(r, c) / det at position (c, r).
C24_CofactorExpansion ==
    res.op = "Matrix" =>
        /\ \A r, c \in 1..res.n :
            /\ res.submatrix[r][c] = Without(res.m, res.n, r, c)
            /\ res.minor[r][c] = ByCofactors(Without(res.m, res.n, r, c), res.n - 1)
            /\ res.cofactor[r][c] = IF (r + c) % 2 = 1 THEN -res.minor[r][c]
                                    ELSE res.minor[r][c]
            /\ res.inverse[c][r] = Div(res.cofactor[r][c], res.det)
        /\ res.det = RowZeroExpansion
        /\ res.det = ByCofactors(res.m, res.n)

\* tests::test_inverse_4x4: the matrix of determinant -585, whose cofactor
\* at row 1, column 0 is the negated minor and lands at row 0, column 1 of
\* the inverse
C24_Witness ==
    /\ res.op = "Matrix"
    /\ res.n = 4
    /\ res.det = -585 * One
    /\ res.minor[2][1] # 0
    /\ res.cofactor[2][1] = -res.minor[2][1]
    /\ res.cofactor[2][1] # res.cofactor[1][2]
    /\ res.inverse[1][2] = Div(res.cofactor[2][1], res.det)

(***************************************************************************)
(* C25                                                                     *)
(***************************************************************************)
\* the greatest whole number not above a
WholeBelow(a) == CHOOSE n \in -10..10 : n * One <= a /\ a < (n + 1) * One

IsEven(n) == \E k \in -20..20 : n = 2 * k

\* C25: for a stripe Pattern.color_at returns colour a exactly when floor(x)
\* is even and colour b when it is odd, below zero as above it, whatever y
\* and z are; for a checker it returns a exactly when
\* floor(x) + floor(y) + floor(z) is even, below zero as well.
C25_StripeAndCheckerByFloor ==
    res.op = "Pattern::color_at" =>
        /\ res.pattern.a # res.pattern.b
        /\ res.out \in {res.pattern.a, res.pattern.b}
        /\ res.pattern.p_type = "Stripe" =>
               (res.out = res.pattern.a <=> IsEven(WholeBelow(res.p.x)))
        /\ res.pattern.p_type = "Checker" =>
               (res.out = res.pattern.a <=>
                    IsEven(WholeBelow(res.p.x) + WholeBelow(res.p.y) + WholeBelow(res.p.z)))

\* tests::a_stripe_pattern_is_alternating_in_z: the stripe at x = -0.1 is b,
\* off the x axis too
C25_Witness ==
    /\ res.op = "Pattern::color_at"
    /\ res.pattern.p_type = "Stripe"
    /\ res.p.x = -(One \div 10)
    /\ res.p.y # 0
    /\ res.p.z < 0
    /\ res.out = res.pattern.b

(***************************************************************************)
(* C26                                                                     *)
(***************************************************************************)
PairwiseUnequal(l) ==
    \A i, j \in 1..Len(l) : IntersectionEq(l[i], l[j]) => i = j

Crossings(l, s) == Cardinality({i \in 1..Len(l) : ShapeEq(l[i].object, s)})

EveryShapeLeaves(l) == \A i \in 1..Len(l) : Crossings(l, l[i].object) % 2 = 0

\* C26: on a list sorted by time whose elements are pairwise unequal the
\* refractive indices chain: the n2 of each element is the n1 of the next,
\* the n1 of the first is 1.0, and when every shape occurs an even number of
\* times the n2 of the last is 1.0.
C26_IndicesChain ==
    (res.op = "prepare each" /\ xs # << >> /\ SortedByTime(xs) /\ PairwiseUnequal(xs)) =>
        /\ \A i \in 1..(Len(xs) - 1) : res.out[i].n[2] = res.out[i + 1].n[1]
        /\ res.out[1].n[1] = One
        /\ EveryShapeLeaves(xs) => res.out[Len(xs)].n[2] = One

\* the six intersections of the three overlapping spheres, each prepared
C26_Witness ==
    /\ res.op = "prepare each"
    /\ xs = TestXs
    /\ PairwiseUnequal(xs)
    /\ EveryShapeLeaves(xs)
    /\ res.out[3].n[2] = (25 * One) \div 10
    /\ res.out[4].n[1] = (25 * One) \div 10
    /\ res.out[6].n[2] = One

(***************************************************************************)
(* C27                                                                     *)
(***************************************************************************)
NoTwoEqual(cs) == \A i, j \in 1..Len(cs) : ShapeEq(cs[i], cs[j]) => i = j

\* C27: prepare_computations recognises the query and tests membership of
\* the container list by the value of a shape (transform, cached inverse,
\* material, kind of geometry), not by which object it is: the list never
\* holds two entries that compare equal, a second shape equal to one in the
\* list removes it, and n1 and n2 are taken at the first element of the list
\* that equals the query in time and in the value of its shape.
C27_ShapesComparedByValue ==
    res.op = "prepare" =>
        LET j == QueryPlace(xs, res.k)
        IN  /\ NoTwoEqual(res.containers)
            /\ res.containers = Entered(SubSeq(xs, 1, j))
            /\ res.out.n[1] = IndexOfLast(Entered(SubSeq(xs, 1, j - 1)))
            /\ res.out.n[2] = IndexOfLast(res.containers)

\* two glass spheres in the same place: where the ray leaves the first, the
\* second had removed it from the list on entering, so n1 is 1.0 inside both
C27_Witness ==
    /\ res.op = "prepare"
    /\ xs = TwinXs
    /\ xs[1].object.addr # xs[2].object.addr
    /\ ShapeEq(xs[1].object, xs[2].object)
    /\ res.k = 3
    /\ res.out.n = <<One, (15 * One) \div 10>>
    /\ res.containers = <<xs[3].object>>

(***************************************************************************)
(* C28                                                                     *)
(***************************************************************************)
Reflective(i) == stack[i].comps.i.object.material.reflective # 0

Transparent(i) == stack[i].comps.i.object.material.transparency # 0

\* C28: the unsigned depth never underflows: every depth a running call
\* holds lies in 0..budget of the outermost call, and reflect_color and
\* refracted_color have computed depth - 1 and cast a ray only from a depth
\* greater than 0, whatever the reflective and transparency values of the
\* material are.
C28_DepthNeverUnderflows ==
    /\ \A i \in DOMAIN stack : stack[i].depth \in 0..budget
    /\ \A i \in Casters :
          stack[i].cast # << >> =>
              /\ stack[i].depth > 0
              /\ stack[i].cast[1].depth \in 0..(budget - 1)
              /\ IF stack[i].fn = "reflect_color" THEN Reflective(i) ELSE Transparent(i)

\* reflect_color of a surface that reflects and transmits, with no budget
\* left: it returns black and never evaluates depth - 1
C28_Witness ==
    /\ stack # << >>
    /\ Top.fn = "reflect_color"
    /\ Top.pc = "ret"
    /\ Top.depth = 0
    /\ Reflective(Len(stack))
    /\ Transparent(Len(stack))
    /\ Top.cast = << >>
    /\ budget = MaxDepth
    /\ Cardinality(ColorAtFrames) = MaxDepth + 1

(***************************************************************************)
(* Specification SpecUnlit: color_at, shade_hit and is_shadowed called on  *)
(* worlds whose list of lights is empty, as World::new leaves it.          *)
(***************************************************************************)
\* World::new()
World_new == World(<< >>, << >>)

\* self.lights[0] on an empty Vec: index out of bounds
shade_hit_panics(w) == Len(w.lights) = 0

is_shadowed_panics(w) == Len(w.lights) = 0

\* a color_at that reads the light before it looks for a hit
color_at_panics_unlit(w, r) == shade_hit_panics(w)

\* color_at reaches shade_hit only through the Some arm of its match
color_at_panics(w, r) == hit(World_intersects(w, r)) # << >> /\ shade_hit_panics(w)

\* World::new, then shapes pushed and no light
UnlitWorlds == {World_new} \cup {[w EXCEPT !.lights = << >>] : w \in Worlds}

InitUnlit ==
    /\ world \in UnlitWorlds
    /\ res = [op |-> None]
    /\ xs = << >>
    /\ IdleTrace
    /\ IdleRender
    /\ IdleShape

\* w.color_at(r, depth)
CallUnlitColorAt(r, depth) ==
    /\ res.op = None
    /\ res' = [op |-> "color_at", r |-> r, depth |-> depth,
               out |-> IF color_at_panics(world, r) THEN << >>
                       ELSE <<World_color_at(world, r, depth)>>]
    /\ NoXsFrame

\* w.shade_hit(hit.prepare_computations(r, &xs), depth)
CallUnlitShadeHit(r, depth) ==
    /\ res.op = None
    /\ LET l == World_intersects(world, r)
           h == hit(l)
       IN  /\ h # << >>
           /\ LET comps == prepare_computations(h[1], r, l)
              IN  res' = [op |-> "shade_hit", comps |-> comps, depth |-> depth,
                          out |-> IF shade_hit_panics(world) THEN << >>
                                  ELSE <<World_shade_hit(world, comps, depth)>>]
    /\ NoXsFrame

\* w.is_shadowed(p)
CallUnlitIsShadowed(p) ==
    /\ res.op = None
    /\ res' = [op |-> "is_shadowed", p |-> p,
               out |-> IF is_shadowed_panics(world) THEN << >>
                       ELSE <<is_shadowed(world, p)>>]
    /\ NoXsFrame

NextUnlit ==
    \/ \E r \in Rays, depth \in Depths : CallUnlitColorAt(r, depth)
    \/ \E r \in Rays, depth \in Depths : CallUnlitShadeHit(r, depth)
    \/ \E p \in ShadowPoints : CallUnlitIsShadowed(p)

SpecUnlit == InitUnlit /\ [][NextUnlit]_vars

(***************************************************************************)
(* C29                                                                     *)
(***************************************************************************)
\* no shape of the world meets the ray at all
MissesEveryShape(w, r) == \A i \in DOMAIN w.objects : Shape_intersects(w.objects[i], r) = << >>

\* some shape of the world meets the ray at a positive time
MeetsAhead(w, r) ==
    \E i \in DOMAIN w.objects :
        LET l == Shape_intersects(w.objects[i], r)
        IN  \E k \in DOMAIN l : l[k].time > 0

\* C29: in a world without a light, color_at of a ray that misses every
\* shape returns black, and shade_hit, is_shadowed and color_at of a ray
\* that meets a shape at a positive time abort on indexing the first light
\* and return no colour.
C29_UnlitWorldAborts ==
    /\ world.lights = << >>
    /\ res.op = "color_at" =>
          /\ MissesEveryShape(world, res.r) => res.out = <<black>>
          /\ MeetsAhead(world, res.r) => res.out = << >>
    /\ res.op \in {"shade_hit", "is_shadowed"} => res.out = << >>

\* a world of one matte sphere and no light: a ray from inside it aborts
C29_Witness ==
    /\ world = World(<< >>, <<matte>>)
    /\ res.op = "color_at"
    /\ res.r = Ray(point(0, 0, 0), vector(0, One, 0))
    /\ MeetsAhead(world, res.r)
    /\ res.out = << >>

\* a mirror plane and no light: a ray parallel to the plane returns black
C29_WitnessMiss ==
    /\ world = World(<< >>, <<lower>>)
    /\ res.op = "color_at"
    /\ MissesEveryShape(world, res.r)
    /\ res.out = <<black>>

(***************************************************************************)
(* C30                                                                     *)
(***************************************************************************)
RECURSIVE RowByColumn(_, _, _, _, _)
RowByColumn(a, b, row, col, k) ==
    IF k = 0 THEN 0 ELSE RowByColumn(a, b, row, col, k - 1) + Mul(a[row][k], b[k][col])

\* C30: the product of two N x N matrices sums the four terms of indices
\* 0..3 of a row and a column: for N = 4 it returns the row-by-column
\* product, and for N = 2 and N = 3 every multiplication indexes outside the
\* grid and aborts without returning a matrix.
C30_ProductOnlyForFour ==
    res.op = "Matrix::mul" =>
        IF res.n = 4
        THEN res.out = <<[row \in 1..4 |-> [col \in 1..4 |->
                            RowByColumn(res.a, res.b, row, col, 4)]]>>
        ELSE res.out = << >>

\* the 2x2 identity times a 2x2 matrix aborts
C30_Witness ==
    /\ res.op = "Matrix::mul"
    /\ res.n = 2
    /\ res.a = Mat2New(<<One, 0, 0, One>>)
    /\ res.b = Mat2New(<<One, 5 * One, -3 * One, 2 * One>>)
    /\ res.out = << >>

\* tests::test_inverse_4x4: a product of two 4x4 matrices that is returned
C30_WitnessFour ==
    /\ res.op = "Matrix::mul"
    /\ res.n = 4
    /\ res.a # identity /\ res.b # identity /\ res.a # res.b
    /\ res.out = <<MatMul(res.a, res.b)>>
    /\ res.out[1] # MatMul(res.b, res.a)

====
